---------------------------- MODULE Spec2Model ----------------------------
(***************************************************************************)
(* Notion -> Postgres sync worker (first_worker).                          *)
(*                                                                         *)
(* The model follows one invocation of the sync cycle function             *)
(* (notionPostgresSync.execute -> runSync) through its await points, the   *)
(* state the hosting runtime carries between invocations, the Postgres     *)
(* table (existence, columns, rows) and the remote Notion database         *)
(* (property definitions, pages).                                          *)
(*                                                                         *)
(* Encodings                                                               *)
(*   - a string is a sequence of one-character strings;                    *)
(*   - a timestamp is a positive integer, 0 stands for "absent";           *)
(*   - a page cursor is a positive integer, 0 stands for null / undefined  *)
(*     (both falsy in the source);                                         *)
(*   - the carried SyncState is a record with a `present` flag, so that    *)
(*     `undefined` is Absent.                                              *)
(***************************************************************************)
EXTENDS Integers, Sequences, FiniteSets, TLC

\* ------------------------------------------------------------------ bounds
NumPages   == 2     \* pages of the remote database
MaxTime    == 2     \* timestamps 1..MaxTime
MaxCursor  == 2     \* cursor tokens 1..MaxCursor an arbitrary remote may return
MaxResults == 2     \* results per query response (page_size of the model)
NumVals    == 2     \* distinct property contents a page can have
MaxClock   == 3     \* timestamps 1..MaxClock of the modelled remote database
PageSize   == 1     \* page_size the modelled remote database serves
MaxCalls   == 3     \* calls made in the process of the worker, followed one by one
MaxBatch   == 2     \* page_size of the remote where an invocation is interrupted
MaxVary    == 2     \* characters that vary in the database ids given to getTableName
MaxLen     == 4     \* length of the names given to sanitizeColumnName on its own

PageIds == 1..NumPages
Times   == 1..MaxTime
Vals    == 1..NumVals

\* ----------------------------------------------------------------- strings
UpperChars == <<"A","B","C","D","E","F","G","H","I","J","K","L","M",
                "N","O","P","Q","R","S","T","U","V","W","X","Y","Z">>
LowerChars == <<"a","b","c","d","e","f","g","h","i","j","k","l","m",
                "n","o","p","q","r","s","t","u","v","w","x","y","z">>
DigitChars == {"0","1","2","3","4","5","6","7","8","9"}

Range(s) == {s[i] : i \in DOMAIN s}

\* the upper-case letters of Latin-1 and their lower-case forms
UpperLatin == <<"À","Á","Â","Ã","Ä","Å","Æ","Ç","È","É","Ê","Ë","Ì",
              "Í","Î","Ï","Ð","Ñ","Ò","Ó","Ô","Õ","Ö","Ø","Ù","Ú",
              "Û","Ü","Ý","Þ">>
LowerLatin == <<"à","á","â","ã","ä","å","æ","ç","è","é","ê","ë","ì",
              "í","î","ï","ð","ñ","ò","ó","ô","õ","ö","ø","ù","ú",
              "û","ü","ý","þ">>

\* Two characters above Latin-1, written by their code points: the Kelvin
\* sign, whose lower case is the letter k, and the capital I with dot above,
\* whose lower case is two code units, i and the combining dot above.
KelvinSign    == "U+212A"
DottedI       == "U+0130"
CombiningDot  == "U+0307"

\* String.prototype.toLowerCase on a string of one character: a string, of
\* one character for all but the dotted capital I.  The characters of the
\* model are ASCII, Latin-1 and the three above.
ToLowerChar(c) ==
    IF \E i \in DOMAIN UpperChars : UpperChars[i] = c
    THEN <<LowerChars[CHOOSE i \in DOMAIN UpperChars : UpperChars[i] = c]>>
    ELSE IF \E i \in DOMAIN UpperLatin : UpperLatin[i] = c
    THEN <<LowerLatin[CHOOSE i \in DOMAIN UpperLatin : UpperLatin[i] = c]>>
    ELSE IF c = KelvinSign THEN <<"k">>
    ELSE IF c = DottedI THEN <<"i", CombiningDot>>
    ELSE <<c>>

\* String.prototype.toLowerCase
RECURSIVE ToLowerCase(_)
ToLowerCase(s) ==
    IF s = <<>> THEN <<>> ELSE ToLowerChar(Head(s)) \o ToLowerCase(Tail(s))

\* the character class [a-z0-9_]
IsSafeChar(c) == c \in Range(LowerChars) \cup DigitChars \cup {"_"}

\* .replace(/^_+|_+$/g, "")
RECURSIVE StripLeading(_)
StripLeading(s) ==
    IF s # <<>> /\ Head(s) = "_" THEN StripLeading(Tail(s)) ELSE s

RECURSIVE StripTrailing(_)
StripTrailing(s) ==
    IF s # <<>> /\ s[Len(s)] = "_"
    THEN StripTrailing(SubSeq(s, 1, Len(s) - 1)) ELSE s

\* .replace(/_+/g, "_")
RECURSIVE CollapseUnderscores(_)
CollapseUnderscores(s) ==
    IF Len(s) < 2 THEN s
    ELSE IF s[1] = "_" /\ s[2] = "_" THEN CollapseUnderscores(Tail(s))
    ELSE <<s[1]>> \o CollapseUnderscores(Tail(s))

\* sanitizeColumnName stripping the underscores before the replacement
sanitizeColumnName_StripsFirst(name) ==
    LET lowered  == ToLowerCase(name)
        stripped == StripTrailing(StripLeading(lowered))
        replaced == [i \in DOMAIN stripped |->
                        IF IsSafeChar(stripped[i]) THEN stripped[i] ELSE "_"]
    IN  CollapseUnderscores(replaced)

sanitizeColumnName(name) ==
    LET lowered  == ToLowerCase(name)
        replaced == [i \in DOMAIN lowered |->
                        IF IsSafeChar(lowered[i]) THEN lowered[i] ELSE "_"]
        stripped == StripTrailing(StripLeading(replaced))
    IN  CollapseUnderscores(stripped)

\* ------------------------------------------------------------ remote schema
\* The property definitions the remote database can have: name and kind.
PropDefs == << [name |-> <<"T","i","t","l","e">>,     type |-> "title"],
               [name |-> <<"P","r","i","o","r","i","t","y">>, type |-> "number"],
               [name |-> <<"P","r","i","o","r","i","t","y">>, type |-> "rich_text"],
               [name |-> <<"D","u","e"," ","D","a","t","e">>, type |-> "date"],
               [name |-> <<"D","u","e","-","D","a","t","e">>, type |-> "date"],
               [name |-> <<"N","o","t","i","o","n"," ","P","a","g","e"," ","I","D">>,
                type |-> "rich_text"],
               [name |-> <<"A","p","p","r","o","v","e">>,     type |-> "button"] >>
PropIds == DOMAIN PropDefs

\* a remote database names each of its properties once
PropertySets ==
    { S \in SUBSET PropIds :
        \A i, j \in S : PropDefs[i].name = PropDefs[j].name => i = j }

\* TYPE_MAP with TEXT for every kind it does not list
TYPE_MAP_TextFallback(t) ==
    CASE t = "number" -> "NUMERIC"
      [] t \in {"multi_select", "relation", "files", "people"} -> "TEXT[]"
      [] t \in {"date", "created_time", "last_edited_time"} -> "TIMESTAMPTZ"
      [] t = "checkbox" -> "BOOLEAN"
      [] OTHER -> "TEXT"

\* TYPE_MAP[notionType]; "" stands for undefined (a kind the table lacks)
TYPE_MAP(t) ==
    CASE t = "title"            -> "TEXT"
      [] t = "rich_text"        -> "TEXT"
      [] t = "number"           -> "NUMERIC"
      [] t = "select"           -> "TEXT"
      [] t = "multi_select"     -> "TEXT[]"
      [] t = "date"             -> "TIMESTAMPTZ"
      [] t = "checkbox"         -> "BOOLEAN"
      [] t = "url"              -> "TEXT"
      [] t = "email"            -> "TEXT"
      [] t = "phone_number"     -> "TEXT"
      [] t = "formula"          -> "TEXT"
      [] t = "relation"         -> "TEXT[]"
      [] t = "rollup"           -> "TEXT"
      [] t = "created_time"     -> "TIMESTAMPTZ"
      [] t = "created_by"       -> "TEXT"
      [] t = "last_edited_time" -> "TIMESTAMPTZ"
      [] t = "last_edited_by"   -> "TEXT"
      [] t = "files"            -> "TEXT[]"
      [] t = "people"           -> "TEXT[]"
      [] t = "status"           -> "TEXT"
      [] t = "unique_id"        -> "TEXT"
      [] OTHER                  -> ""

\* the three special columns
notion_page_id == <<"n","o","t","i","o","n","_","p","a","g","e","_","i","d">>
page_content   == <<"p","a","g","e","_","c","o","n","t","e","n","t">>
synced_at      == <<"s","y","n","c","e","d","_","a","t">>
SpecialCols    == <<notion_page_id, page_content, synced_at>>
SpecialTypes   == <<"TEXT PRIMARY KEY", "TEXT", "TIMESTAMPTZ DEFAULT NOW()">>

\* the mapping entry fetchNotionSchema builds for each property definition
PropertyMapping ==
    [i \in PropIds |->
        [propName     |-> PropDefs[i].name,
         notionType   |-> PropDefs[i].type,
         postgresType |-> TYPE_MAP(PropDefs[i].type),
         columnName   |-> sanitizeColumnName(PropDefs[i].name)]]

\* fetchNotionSchema's mapping for the property ids `props`, in entry order:
\* one entry per property whose kind TYPE_MAP knows
RECURSIVE MappingOf(_, _)
MappingOf(props, from) ==
    IF from > Len(PropDefs) THEN <<>>
    ELSE LET rest == MappingOf(props, from + 1)
         IN  IF from \in props /\ PropertyMapping[from].postgresType # ""
             THEN <<PropertyMapping[from]>> \o rest
             ELSE rest

fetchNotionSchema(props) == MappingOf(props, 1)

\* the properties fetchNotionSchema keeps; one it drops changes neither the
\* mapping nor anything computed from it
MappedProps == { i \in PropIds : PropertyMapping[i].postgresType # "" }

\* ColumnNames with the special columns in front
ColumnNames_WithSpecials(mapping) ==
    SpecialCols \o [i \in DOMAIN mapping |-> mapping[i].columnName]

\* Object.values(schemaMapping).map((s) => s.columnName)
ColumnNames(mapping) == [i \in DOMAIN mapping |-> mapping[i].columnName]

\* Object.values(schema).map((s) => s.postgresType)
ColumnTypes(mapping) == [i \in DOMAIN mapping |-> mapping[i].postgresType]


\* ------------------------------------------------------------------ Postgres
\* The DDL statements one syncSchema call plans against a table that
\* exists with columns `cols` (or does not exist), in issue order.
\* AlterProps adding every missing column as TEXT
RECURSIVE AlterProps_TextOnly(_, _, _)
AlterProps_TextOnly(schema, cols, i) ==
    IF i > Len(schema) THEN <<>>
    ELSE IF schema[i].columnName \notin cols
         THEN << [op |-> "add", columns |-> <<schema[i].columnName>>,
                  types |-> <<"TEXT">>] >>
                 \o AlterProps_TextOnly(schema, cols, i + 1)
         ELSE AlterProps_TextOnly(schema, cols, i + 1)

RECURSIVE AlterProps(_, _, _)
AlterProps(schema, cols, i) ==
    IF i > Len(schema) THEN <<>>
    ELSE IF schema[i].columnName \notin cols
         THEN << [op |-> "add", columns |-> <<schema[i].columnName>>,
                  types |-> <<schema[i].postgresType>>] >>
                 \o AlterProps(schema, cols, i + 1)
         ELSE AlterProps(schema, cols, i + 1)

RECURSIVE AlterSpecials(_, _)
AlterSpecials(cols, i) ==
    IF i > Len(SpecialCols) THEN <<>>
    ELSE IF SpecialCols[i] \notin cols /\ SpecialCols[i] # notion_page_id
         THEN << [op |-> "add", columns |-> <<SpecialCols[i]>>,
                  types |-> <<SpecialTypes[i]>>] >>
                 \o AlterSpecials(cols, i + 1)
         ELSE AlterSpecials(cols, i + 1)

\* DDLPlan creating the table with the special columns only and adding the
\* schema columns one by one
DDLPlan_CreateThenAlter(exists, cols, schema) ==
    IF ~exists
    THEN << [op |-> "create", columns |-> SpecialCols, types |-> SpecialTypes] >>
            \o AlterProps(schema, Range(SpecialCols), 1)
    ELSE AlterProps(schema, cols, 1) \o AlterSpecials(cols, 1)

DDLPlan(exists, cols, schema) ==
    IF ~exists
    THEN << [op |-> "create", columns |-> SpecialCols \o ColumnNames(schema),
             types |-> SpecialTypes \o ColumnTypes(schema)] >>
    ELSE AlterProps(schema, cols, 1) \o AlterSpecials(cols, 1)

\* Postgres accepts CREATE TABLE when the table is new and no column is
\* named twice or with the empty name, ADD COLUMN when the table exists and
\* the column is new and named.
DDLAccepted(exists, cols, stmt) ==
    IF stmt.op = "create"
    THEN /\ ~exists
         /\ \A i, j \in DOMAIN stmt.columns :
                stmt.columns[i] = stmt.columns[j] => i = j
         /\ <<>> \notin Range(stmt.columns)
    ELSE /\ exists
         /\ stmt.columns[1] \notin cols
         /\ stmt.columns[1] # <<>>

\* A cell holds NULL or the text of a value, as the driver sends it.
Null == "NULL"

\* what ADD COLUMN gives the rows the table holds in a column of the type:
\* the column's default, NOW() at the time of the statement for synced_at,
\* NULL for a type without one
DefaultOf(type, now) ==
    IF type = SpecialTypes[3] THEN ToString(now) ELSE Null

\* the rows after the statement: the cells they had, and the default in the
\* columns the statement added
RowsAfterDDL(rowsOf, cols, stmt, now) ==
    [p \in DOMAIN rowsOf |->
        [i \in DOMAIN rowsOf[p] |->
            [c \in cols \cup Range(stmt.columns) |->
                IF c \in cols THEN rowsOf[p][i][c]
                ELSE DefaultOf(stmt.types[CHOOSE k \in DOMAIN stmt.columns :
                                              stmt.columns[k] = c], now)]]]

\* the columns of the statement with their definitions
TypesOf(stmt) ==
    { [name |-> stmt.columns[k], type |-> stmt.types[k]] :
        k \in DOMAIN stmt.columns }

\* executeRaw with every statement rebuilding the table from the columns it
\* names: the columns it does not name are gone
executeRaw_Rebuilds(table, stmt, refused) ==
    IF refused \/ ~DDLAccepted(table.exists, table.cols, stmt)
    THEN [table |-> table, threw |-> TRUE]
    ELSE [table |-> [exists |-> TRUE, cols |-> Range(stmt.columns),
                     types |-> TypesOf(stmt)],
          threw |-> FALSE]

\* await executeRaw(sql, query): sql.query of one statement, which commits
\* on its own.  The database refuses it for a reason of its own (connection,
\* permission) or because Postgres does not accept it as the table is now,
\* and then it throws and the table is as it was.
executeRaw(table, stmt, refused) ==
    IF refused \/ ~DDLAccepted(table.exists, table.cols, stmt)
    THEN [table |-> table, threw |-> TRUE]
    ELSE [table |-> [exists |-> TRUE,
                     cols |-> table.cols \cup Range(stmt.columns),
                     types |-> table.types \cup TypesOf(stmt)],
          threw |-> FALSE]

\* The locals of a syncSchema call between its awaits: where it stands
\* ("tableExists", "getTableColumns", "executeRaw": the call it awaits;
\* "returned", "threw"; "none": not called), the statements it goes on to
\* issue as it decided from what it read, the one it awaits, and its
\* SchemaSyncResult so far.
NoSchemaSync ==
    [stage |-> "none", plan |-> <<>>, next |-> 0,
     created |-> FALSE, columnsAdded |-> <<>>]

Called == [NoSchemaSync EXCEPT !.stage = "tableExists"]

InFlight(locals) ==
    locals.stage \in {"tableExists", "getTableColumns", "executeRaw"}

Thrown(locals) == [locals EXCEPT !.stage = "threw"]

\* syncSchema going on with the next statement after a failed one
syncSchema_ContinuesAfterFailure(locals, table, schema, refused) ==
    IF refused /\ locals.stage # "executeRaw"
    THEN [locals |-> Thrown(locals), table |-> table]
    ELSE IF locals.stage = "tableExists"
    THEN IF table.exists
         THEN [locals |-> [locals EXCEPT !.stage = "getTableColumns"],
               table |-> table]
         ELSE [locals |-> [locals EXCEPT !.stage = "executeRaw",
                              !.plan = DDLPlan(FALSE, {}, schema), !.next = 1],
               table |-> table]
    ELSE IF locals.stage = "getTableColumns"
    THEN LET plan == DDLPlan(TRUE, table.cols, schema)
         IN  [locals |-> [locals EXCEPT
                             !.stage = IF plan = <<>> THEN "returned"
                                       ELSE "executeRaw",
                             !.plan = plan, !.next = 1],
              table |-> table]
    ELSE LET stmt == locals.plan[locals.next]
             run  == executeRaw(table, stmt, refused)
             last == locals.next = Len(locals.plan)
         IN  IF run.threw
             THEN [locals |-> [locals EXCEPT
                                  !.next = @ + 1,
                                  !.stage = IF last THEN "threw"
                                            ELSE "executeRaw"],
                   table |-> table]
             ELSE [locals |-> [locals EXCEPT
                                  !.next = @ + 1,
                                  !.created = stmt.op = "create",
                                  !.columnsAdded =
                                      IF stmt.op = "add"
                                      THEN Append(@, stmt.columns[1]) ELSE @,
                                  !.stage = IF last THEN "returned"
                                            ELSE "executeRaw"],
                   table |-> run.table]

\* syncSchema reporting every schema column as added, missing or not
syncSchema_ReportsAllColumns(locals, table, schema, refused) ==
    IF refused /\ locals.stage # "executeRaw"
    THEN [locals |-> Thrown(locals), table |-> table]
    ELSE IF locals.stage = "tableExists"
    THEN IF table.exists
         THEN [locals |-> [locals EXCEPT !.stage = "getTableColumns"],
               table |-> table]
         ELSE [locals |-> [locals EXCEPT !.stage = "executeRaw",
                              !.plan = DDLPlan(FALSE, {}, schema), !.next = 1],
               table |-> table]
    ELSE IF locals.stage = "getTableColumns"
    THEN LET plan == DDLPlan(TRUE, table.cols, schema)
         IN  [locals |-> [locals EXCEPT
                             !.stage = IF plan = <<>> THEN "returned"
                                       ELSE "executeRaw",
                             !.plan = plan, !.next = 1,
                             !.columnsAdded = ColumnNames(schema)],
              table |-> table]
    ELSE LET stmt == locals.plan[locals.next]
             run  == executeRaw(table, stmt, refused)
         IN  IF run.threw
             THEN [locals |-> Thrown(locals), table |-> table]
             ELSE [locals |-> [locals EXCEPT
                                  !.next = @ + 1,
                                  !.created = stmt.op = "create",
                                  !.stage = IF locals.next = Len(locals.plan)
                                            THEN "returned" ELSE "executeRaw"],
                   table |-> run.table]

\* syncSchema(sql, tableName, schema), from one of its awaits to the next:
\* the locals and the table after the call it awaits has settled (refused:
\* the database refuses it for a reason of its own).  tableExists decides
\* between the CREATE TABLE and the ALTER path; getTableColumns gives
\* existingNames, from which the statements of the ALTER path follow, as
\* the set is not updated afterwards; executeRaw issues the next statement
\* against the table as it is by then; the first call that throws ends
\* syncSchema.
syncSchema(locals, table, schema, refused) ==
    IF refused /\ locals.stage # "executeRaw"
    THEN [locals |-> Thrown(locals), table |-> table]
    ELSE IF locals.stage = "tableExists"
    THEN IF table.exists
         THEN [locals |-> [locals EXCEPT !.stage = "getTableColumns"],
               table |-> table]
         ELSE [locals |-> [locals EXCEPT !.stage = "executeRaw",
                              !.plan = DDLPlan(FALSE, {}, schema), !.next = 1],
               table |-> table]
    ELSE IF locals.stage = "getTableColumns"
    THEN LET plan == DDLPlan(TRUE, table.cols, schema)
         IN  [locals |-> [locals EXCEPT
                             !.stage = IF plan = <<>> THEN "returned"
                                       ELSE "executeRaw",
                             !.plan = plan, !.next = 1],
              table |-> table]
    ELSE LET stmt == locals.plan[locals.next]
             run  == executeRaw(table, stmt, refused)
         IN  IF run.threw
             THEN [locals |-> Thrown(locals), table |-> table]
             ELSE [locals |-> [locals EXCEPT
                                  !.next = @ + 1,
                                  !.created = stmt.op = "create",
                                  !.columnsAdded =
                                      IF stmt.op = "add"
                                      THEN Append(@, stmt.columns[1]) ELSE @,
                                  !.stage = IF locals.next = Len(locals.plan)
                                            THEN "returned" ELSE "executeRaw"],
                   table |-> run.table]

\* the table syncSchema creates, when there is none, for the mapping of props
NoTable == [exists |-> FALSE, cols |-> {}, types |-> {}]

CreatedTable(props) ==
    executeRaw(NoTable, DDLPlan(FALSE, {}, fetchNotionSchema(props))[1],
               FALSE).table

\* the statements a syncSchema call can build for the schema: the CREATE
\* TABLE, and the ADD COLUMN of each schema column, of page_content and of
\* synced_at
StatementsFor(schema) ==
    Range(DDLPlan(FALSE, {}, schema)) \cup Range(DDLPlan(TRUE, {}, schema))

\* upsertRecord's statement names allColumns; Postgres accepts it when the
\* table exists and has every one of them, no column is named twice, and the
\* conflict target notion_page_id is the table's primary key column.
AllColumns(columns) == SpecialCols \o columns

\* the column notion_page_id was defined as the primary key
HasKey(types) == [name |-> notion_page_id, type |-> SpecialTypes[1]] \in types

UpsertAccepted(exists, cols, types, columns) ==
    /\ exists
    /\ HasKey(types)
    /\ Range(AllColumns(columns)) \subseteq cols
    /\ \A i, j \in DOMAIN AllColumns(columns) :
           AllColumns(columns)[i] = AllColumns(columns)[j] => i = j

\* what upsertRecord's statement gives column c of the row of `record`
ValueOf(record, c) ==
    IF c = notion_page_id THEN ToString(record.notion_page_id)
    ELSE IF c = page_content THEN record.page_content
    ELSE IF c = synced_at THEN ToString(record.synced_at)
    ELSE IF c \in DOMAIN record.properties THEN record.properties[c]
    ELSE Null

\* the row an INSERT of `record` naming `columns` makes in a table with
\* columns cols: the named columns from the record, the others NULL
InsertedRow(record, cols, columns) ==
    [c \in cols |->
        IF c \in Range(AllColumns(columns)) THEN ValueOf(record, c) ELSE Null]

\* upsertRecord as a plain INSERT, without the ON CONFLICT clause, on a table
\* that has no primary key
upsertRecord_PlainInsert(rowsOf, cols, record, columns) ==
    [rowsOf EXCEPT ![record.notion_page_id] =
        Append(@, InsertedRow(record, cols, columns))]

\* upsertRecord with SET col = COALESCE(EXCLUDED.col, col): a merge
upsertRecord_Merge(rowsOf, cols, record, columns) ==
    LET existing == rowsOf[record.notion_page_id]
        new      == InsertedRow(record, cols, columns)
    IN  IF existing = <<>>
        THEN [rowsOf EXCEPT ![record.notion_page_id] = <<new>>]
        ELSE [rowsOf EXCEPT ![record.notion_page_id] =
                 [i \in DOMAIN existing |->
                     [c \in cols |->
                         IF c \in Range(AllColumns(columns)) /\ new[c] # Null
                         THEN new[c] ELSE existing[i][c]]]]

\* upsertRecord(sql, tableName, record, columns), its statement accepted:
\* INSERT the row; ON CONFLICT (notion_page_id) DO UPDATE SET every named
\* column but the key to the value of the row that was to be inserted
upsertRecord(rowsOf, cols, record, columns) ==
    LET existing == rowsOf[record.notion_page_id]
        new      == InsertedRow(record, cols, columns)
    IN  IF existing = <<>>
        THEN [rowsOf EXCEPT ![record.notion_page_id] = <<new>>]
        ELSE [rowsOf EXCEPT ![record.notion_page_id] =
                 [i \in DOMAIN existing |->
                     [c \in cols |->
                         IF c \in Range(AllColumns(columns)) /\ c # notion_page_id
                         THEN new[c] ELSE existing[i][c]]]]

\* ------------------------------------------------------------ carried state
Absent == [present |-> FALSE, cursor |-> 0, lastSyncTime |-> 0]
SyncState(c, t) == [present |-> TRUE, cursor |-> c, lastSyncTime |-> t]

\* BuildQuery with the time filter also set on a resumed page
BuildQuery_FilterWithCursor(state) ==
    IF state.present /\ state.cursor # 0
    THEN [start_cursor |-> state.cursor, after |-> state.lastSyncTime,
          sort |-> "last_edited_time ascending"]
    ELSE [start_cursor |-> 0, after |-> state.lastSyncTime,
          sort |-> "last_edited_time ascending"]

\* BuildQuery that never sets start_cursor
BuildQuery_IgnoresCursor(state) ==
    IF state.present /\ state.lastSyncTime # 0
    THEN [start_cursor |-> 0, after |-> state.lastSyncTime,
          sort |-> "last_edited_time ascending"]
    ELSE [start_cursor |-> 0, after |-> 0,
          sort |-> "last_edited_time ascending"]

\* runSync step 3: the query built from the carried state
BuildQuery(state) ==
    IF state.present /\ state.cursor # 0
    THEN [start_cursor |-> state.cursor, after |-> 0,
          sort |-> "last_edited_time ascending"]
    ELSE IF state.present /\ state.lastSyncTime # 0
    THEN [start_cursor |-> 0, after |-> state.lastSyncTime,
          sort |-> "last_edited_time ascending"]
    ELSE [start_cursor |-> 0, after |-> 0,
          sort |-> "last_edited_time ascending"]

\* NextStateOf with the watermark taken from the first result
NextStateOf_FirstPage(state, qr) ==
    IF qr.has_more /\ qr.next_cursor # 0
    THEN [present |-> TRUE, cursor |-> qr.next_cursor,
          lastSyncTime |-> state.lastSyncTime]
    ELSE IF Len(qr.results) > 0
    THEN LET firstPage == qr.results[1]
         IN  IF firstPage.last_edited_time # 0
             THEN [present |-> TRUE, cursor |-> 0,
                   lastSyncTime |-> firstPage.last_edited_time]
             ELSE [present |-> FALSE, cursor |-> 0, lastSyncTime |-> 0]
    ELSE [present |-> FALSE, cursor |-> 0, lastSyncTime |-> 0]

\* runSync step 5: nextState from the carried state and the query response
NextStateOf(state, qr) ==
    IF qr.has_more /\ qr.next_cursor # 0
    THEN [present |-> TRUE, cursor |-> qr.next_cursor,
          lastSyncTime |-> state.lastSyncTime]
    ELSE IF Len(qr.results) > 0
    THEN LET lastPage == qr.results[Len(qr.results)]
         IN  IF lastPage.last_edited_time # 0
             THEN SyncState(0, lastPage.last_edited_time)
             ELSE Absent
    ELSE Absent

HasMoreOf(qr) == qr.has_more

\* NeedsSchemaSync written as if (!state?.lastSyncTime)
NeedsSchemaSync_NoWatermark(state) == state.lastSyncTime = 0

\* runSync step 2: if (!state), the schema is reconciled
NeedsSchemaSync(state) == ~state.present

\* What the runtime holds after execute returned nextState: the docs of the
\* SDK say nextState sets the state of the next run.
StateAfterReturn(held, returned) == returned

\* ExecuteOutput that ends the cycle when a record failed
ExecuteOutput_StopsOnErrors(out) ==
    [changes   |-> <<>>,
     hasMore   |-> out.hasMore /\ out.result.errorCount = 0,
     nextState |-> out.nextState]

\* what execute returns to the runtime from runSync's {result, nextState,
\* hasMore}
ExecuteOutput(out) ==
    [changes   |-> <<>>,
     hasMore   |-> out.hasMore,
     nextState |-> out.nextState]

\* runSync's return value
RunSyncOutput(res, next, more) ==
    [result |-> res, nextState |-> next, hasMore |-> more]

\* StateAfterThrow with a catch that returns {changes: [], hasMore: false}
\* instead of rethrowing: the runtime stores the undefined nextState
StateAfterThrow_Reset(held) ==
    [present |-> FALSE, cursor |-> 0, lastSyncTime |-> 0]

\* StateAfterThrow with a runtime that forgets the page cursor of an
\* invocation that did not return
StateAfterThrow_DropsCursor(held) == [held EXCEPT !.cursor = 0]

\* What the runtime holds after execute threw (its catch rethrows): no
\* nextState reached it.
StateAfterThrow(held) == held

\* the per-record catch block and the success path of the loop body
EmptyResult == [processedCount |-> 0, errorCount |-> 0, errors |-> <<>>]

RecordSynced(res) == [res EXCEPT !.processedCount = @ + 1]

\* RecordFailed that counts the failure and keeps no message
RecordFailed_NoMessage(res, pageId) == [res EXCEPT !.errorCount = @ + 1]

RecordFailed(res, pageId) ==
    [res EXCEPT !.errorCount = @ + 1, !.errors = Append(@, pageId)]

\* RowsAfterUpsert written as a reload: the table is emptied and the record
\* inserted
RowsAfterUpsert_Reloads(rs, page) ==
    [p \in DOMAIN rs |-> IF p = page.id THEN page.val ELSE 0]

\* The identifiers with a row, and what their rows hold, after upsertRecord
\* stored the record of a page: INSERT ... ON CONFLICT (notion_page_id) DO
\* UPDATE touches the row of that identifier only.
RowsAfterUpsert(rs, page) == [rs EXCEPT ![page.id] = page.val]

\* page_content values: the markdown of a page's blocks (opaque here), the
\* empty string, and the marker of a page id that has no row
Markdown  == "md"
NoContent == "none"

\* pageToMarkdown with a catch that logs and rethrows
pageToMarkdown_Rethrows(content, fails) ==
    [threw |-> fails, content |-> IF fails THEN "" ELSE content]

\* pageToMarkdown(notion, pageId): the markdown string of the page; when the
\* conversion throws, its catch logs and returns the empty string
pageToMarkdown(content, fails) ==
    [threw |-> FALSE, content |-> IF fails THEN "" ELSE content]

\* NextIndex without the per-record try/catch: a failure ends the loop
NextIndex_AbortOnFailure(i, n, failed) == IF failed THEN n + 1 ELSE i + 1

\* the loop goes on with the next result after a record, failed or not
NextIndex(i, n, failed) == i + 1

\* how many of the records handled so far were stored
CountOfUpserts(outs) == Cardinality({i \in DOMAIN outs : outs[i] = "upserted"})


\* -------------------------------------------------------------------- state
VARIABLES
    rtState,        \* the SyncState the runtime holds and passes to execute
    pc,             \* where the invocation stands: "idle" (none running),
                    \* "fetchSchema", "syncSchema", "query", "process"
                    \* (at the head of the loop), "upsert" (awaiting the
                    \* upsert of a record), "return", "threw"
    schemaMapping,  \* runSync: schemaMapping
    queryParams,    \* runSync: queryParams as sent
    queryResult,    \* runSync: queryResult
    idx,            \* runSync: position of the for-of loop in queryResult.results
    result,         \* runSync: result (SyncResult)
    nextState,      \* runSync: nextState
    hasMore,        \* runSync: hasMore
    tableExists,    \* Postgres: the target table exists
    tableCols,      \* Postgres: its column names
    tableTypes,     \* Postgres: its columns as [name, type], type as defined
    rows,           \* Postgres: page id -> stored property content, 0: no row
    rowContent,     \* Postgres: page id -> stored page_content, NoContent: no row
    remoteProps,    \* Notion: ids (in PropDefs) of the database's properties
    pages,          \* Notion: page id -> [last_edited_time, val], time 0: no page
    reconciled,     \* history: syncSchema returned in this invocation
    ddlIssued,      \* history: DDL statements issued in this invocation
    schemaSync,     \* syncSchema: the locals of the call in flight
    outcomes,       \* history: per result of this invocation, what happened
    flattenFailed,  \* history: positions of the results of this invocation
                    \* whose conversion to markdown failed
    prevEmptyW,     \* history: the watermark the previous returned invocation
                    \* carried, when it carried no cursor, fetched nothing
                    \* and was told there is no more; else 0
    relRows,        \* Postgres, cell by cell, for upsertRecord and syncSchema
                    \* called on their own: page id -> the rows of that
                    \* identifier, a row being a function column -> cell
    call            \* history: the last such call, its arguments and outcome,
                    \* for as long as the remote database stays as it was

vars == <<rtState, pc, schemaMapping, queryParams, queryResult, idx, result,
          nextState, hasMore, tableExists, tableCols, tableTypes, rows,
          rowContent,
          remoteProps, pages, reconciled, ddlIssued, schemaSync, outcomes,
          flattenFailed, prevEmptyW, relRows, call>>

dbVars     == <<tableExists, tableCols, tableTypes, rows, rowContent>>
remoteVars == <<remoteProps, pages>>
callVars   == <<relRows, call>>

NoQuery  == [start_cursor |-> 0, after |-> 0, sort |-> ""]
NoResult == [results |-> <<>>, has_more |-> FALSE, next_cursor |-> 0]
NoPage   == [last_edited_time |-> 0, val |-> 1]
NoRows   == [p \in PageIds |-> <<>>]
NoCall   == [op |-> "none"]

Init ==
    /\ rtState = Absent
    /\ pc = "idle"
    /\ schemaMapping = <<>>
    /\ queryParams = NoQuery
    /\ queryResult = NoResult
    /\ idx = 0
    /\ result = EmptyResult
    /\ nextState = Absent
    /\ hasMore = FALSE
    /\ tableExists = FALSE
    /\ tableCols = {}
    /\ tableTypes = {}
    /\ rows = [p \in PageIds |-> 0]
    /\ rowContent = [p \in PageIds |-> NoContent]
    /\ remoteProps = {1}
    /\ pages = [p \in PageIds |-> NoPage]
    /\ reconciled = FALSE
    /\ ddlIssued = 0
    /\ schemaSync = NoSchemaSync
    /\ outcomes = <<>>
    /\ flattenFailed = {}
    /\ prevEmptyW = 0
    /\ relRows = NoRows
    /\ call = NoCall

\* the locals of an invocation, back to their values before it
ResetLocals ==
    /\ schemaMapping' = <<>>
    /\ queryParams' = NoQuery
    /\ queryResult' = NoResult
    /\ idx' = 0
    /\ result' = EmptyResult
    /\ nextState' = Absent
    /\ hasMore' = FALSE
    /\ reconciled' = FALSE
    /\ ddlIssued' = 0
    /\ schemaSync' = NoSchemaSync
    /\ outcomes' = <<>>
    /\ flattenFailed' = {}

\* ------------------------------------------------------------------ actions
\* The runtime calls execute(state, {notion}) with the state it holds.
Invoke ==
    /\ pc = "idle"
    /\ pc' = "fetchSchema"
    /\ UNCHANGED <<rtState, schemaMapping, queryParams, queryResult, idx, result,
                   nextState, hasMore, dbVars, remoteVars, reconciled,
                   ddlIssued, schemaSync, outcomes, flattenFailed, prevEmptyW, callVars>>

\* Step 1: await fetchNotionSchema(notion, databaseId); it throws when the
\* retrieve call fails or the response has no properties.  Step 2 follows
\* without an await: if (!state), syncSchema is called.
FetchSchema(ok) ==
    /\ pc = "fetchSchema"
    /\ IF ok
       THEN /\ schemaMapping' = fetchNotionSchema(remoteProps)
            /\ pc' = IF NeedsSchemaSync(rtState) THEN "syncSchema" ELSE "query"
            /\ schemaSync' = IF NeedsSchemaSync(rtState) THEN Called
                             ELSE schemaSync
       ELSE /\ schemaMapping' = schemaMapping
            /\ pc' = "threw"
            /\ schemaSync' = schemaSync
    /\ UNCHANGED <<rtState, queryParams, queryResult, idx, result, nextState,
                   hasMore, dbVars, remoteVars, reconciled, ddlIssued,
                   outcomes, flattenFailed, prevEmptyW, callVars>>

\* the table as Postgres holds it
Table == [exists |-> tableExists, cols |-> tableCols, types |-> tableTypes]

\* The call the syncSchema in flight awaits (tableExists, getTableColumns or
\* executeRaw) settles, and syncSchema goes on to its next await, its
\* return or its throw; now is the time of the database.
AwaitSyncSchema(schema, refused, now) ==
    LET r == syncSchema(schemaSync, Table, schema, refused)
    IN  /\ InFlight(schemaSync)
        /\ schemaSync' = r.locals
        /\ tableExists' = r.table.exists
        /\ tableCols' = r.table.cols
        /\ tableTypes' = r.table.types
        /\ relRows' = IF r.table = Table THEN relRows
                      ELSE RowsAfterDDL(relRows, tableCols,
                                        schemaSync.plan[schemaSync.next], now)

\* Step 2: if (!state) await syncSchema(sql, tableName, schemaMapping), one
\* await of it at a time.  (No row is kept cell by cell here, so the time
\* of the database plays no part.)
SyncSchemaStep(refused) ==
    /\ pc = "syncSchema"
    /\ AwaitSyncSchema(schemaMapping, refused, 1)
    /\ ddlIssued' = IF schemaSync.stage = "executeRaw" THEN ddlIssued + 1
                    ELSE ddlIssued
    /\ reconciled' = (schemaSync'.stage = "returned")
    /\ pc' = IF schemaSync'.stage = "returned" THEN "query"
             ELSE IF schemaSync'.stage = "threw" THEN "threw"
             ELSE pc
    /\ UNCHANGED <<rtState, schemaMapping, queryParams, queryResult, idx, result,
                   nextState, hasMore, rows, rowContent, remoteVars, outcomes,
                   flattenFailed, prevEmptyW, call>>

\* await executeRaw(sql, query) by another caller than the invocation
\* followed here (the syncSchema tool called next to the sync, a second
\* invocation): one of the statements syncSchema builds for the remote
\* schema, at any moment, accepted by Postgres as the table is then.  (One
\* that Postgres refuses changes nothing.)
ExecuteRaw(stmt, now) ==
    LET run == executeRaw(Table, stmt, FALSE)
    IN  /\ ~run.threw
        /\ tableExists' = run.table.exists
        /\ tableCols' = run.table.cols
        /\ tableTypes' = run.table.types
        /\ relRows' = RowsAfterDDL(relRows, tableCols, stmt, now)
        /\ UNCHANGED <<rtState, pc, schemaMapping, queryParams, queryResult,
                       idx, result, nextState, hasMore, rows, rowContent,
                       remoteVars, reconciled, ddlIssued, schemaSync, outcomes,
                       flattenFailed, prevEmptyW, call>>

\* the statements of such a caller
OtherStatements == StatementsFor(fetchNotionSchema(remoteProps))

\* The statement of a caller that read what the syncSchema in flight read
\* and is a step ahead of it: the one this call is about to issue.
Racing ==
    IF schemaSync.stage = "executeRaw"
    THEN {schemaSync.plan[schemaSync.next]} ELSE {}

\* The responses an arbitrary remote can give: at most MaxResults results with
\* distinct ids, listed in ascending id (runSync never compares ids); a full
\* page carries properties and last_edited_time, a partial one carries
\* neither; the full ones come sorted ascending by edit time, as the query
\* asks.
PageObjects ==
    [id : PageIds, last_edited_time : Times, full : {TRUE}, val : {1}]
    \cup [id : PageIds, last_edited_time : {0}, full : {FALSE}, val : {1}]

ResultLists ==
    { rs \in UNION { [1..n -> PageObjects] : n \in 0..MaxResults } :
        /\ \A i, j \in DOMAIN rs : i < j => rs[i].id < rs[j].id
        /\ \A i, j \in DOMAIN rs :
              (i < j /\ rs[i].full /\ rs[j].full)
                  => rs[i].last_edited_time <= rs[j].last_edited_time }

Responses ==
    [results : ResultLists, has_more : BOOLEAN, next_cursor : 0..MaxCursor]

\* the responses that can arrive in the current state: only a query that
\* was sent is answered
Answers == IF pc = "query" THEN Responses ELSE {}

\* Step 3: await notion.databases.query(queryParams), any response
QueryAny(ok, resp) ==
    /\ pc = "query"
    /\ queryParams' = BuildQuery(rtState)
    /\ IF ok
       THEN /\ queryResult' = resp
            /\ idx' = 1
            /\ pc' = "process"
       ELSE /\ queryResult' = queryResult
            /\ idx' = idx
            /\ pc' = "threw"
    /\ UNCHANGED <<rtState, schemaMapping, result, nextState, hasMore, dbVars,
                   remoteVars, reconciled, ddlIssued, schemaSync, outcomes, flattenFailed, prevEmptyW, callVars>>

\* Step 4, the head of one iteration of the loop, up to its first await: a
\* result without properties is skipped; otherwise the properties are
\* extracted and pageToMarkdown is awaited, after which upsertRecord is
\* called.  outcome is what happens to this record: "ok", "extractFail"
\* (extraction throws, caught by the loop), "contentFail" (the conversion to
\* markdown throws inside pageToMarkdown).
ProcessPage(outcome) ==
    /\ pc = "process"
    /\ idx <= Len(queryResult.results)
    /\ LET page == queryResult.results[idx]
           md   == pageToMarkdown(Markdown, outcome = "contentFail")
       IN  IF ~page.full
           THEN /\ outcome = "ok"
                /\ outcomes' = Append(outcomes, "skipped")
                /\ idx' = idx + 1
                /\ pc' = pc
                /\ UNCHANGED <<result, flattenFailed>>
           ELSE /\ flattenFailed' = IF outcome = "contentFail"
                                    THEN flattenFailed \cup {idx}
                                    ELSE flattenFailed
                /\ IF outcome = "extractFail" \/ md.threw
                   THEN /\ result' = RecordFailed(result, page.id)
                        /\ outcomes' = Append(outcomes, "failed")
                        /\ idx' = NextIndex(idx, Len(queryResult.results), TRUE)
                        /\ pc' = pc
                   ELSE /\ pc' = "upsert"
                        /\ UNCHANGED <<result, outcomes, idx>>
    /\ UNCHANGED <<rtState, schemaMapping, queryParams, queryResult,
                   nextState, hasMore, dbVars, remoteVars, reconciled,
                   ddlIssued, schemaSync, prevEmptyW, callVars>>

\* the content pageToMarkdown returned for the record the loop is at
ContentOf(i) == pageToMarkdown(Markdown, i \in flattenFailed).content

\* Step 4, the rest of the iteration: await upsertRecord(sql, tableName,
\* record, columnNames) settles, stored or thrown (refused: the database
\* refuses the statement for a reason of its own) and caught by the loop.
UpsertPage(refused) ==
    /\ pc = "upsert"
    /\ LET page   == queryResult.results[idx]
           stored == /\ ~refused
                     /\ UpsertAccepted(tableExists, tableCols, tableTypes,
                                       ColumnNames(schemaMapping))
       IN  IF stored
           THEN /\ rows' = RowsAfterUpsert(rows, page)
                /\ rowContent' = [rowContent EXCEPT ![page.id] = ContentOf(idx)]
                /\ result' = RecordSynced(result)
                /\ outcomes' = Append(outcomes, "upserted")
                /\ idx' = NextIndex(idx, Len(queryResult.results), FALSE)
           ELSE /\ rows' = rows
                /\ rowContent' = rowContent
                /\ result' = RecordFailed(result, page.id)
                /\ outcomes' = Append(outcomes, "failed")
                /\ idx' = NextIndex(idx, Len(queryResult.results), TRUE)
    /\ pc' = "process"
    /\ UNCHANGED <<rtState, schemaMapping, queryParams, queryResult,
                   nextState, hasMore, tableExists, tableCols, tableTypes,
                   remoteVars, reconciled, ddlIssued, schemaSync,
                   flattenFailed, prevEmptyW, callVars>>

\* Step 5: the loop is over; compute hasMore and nextState
FinishBatch ==
    /\ pc = "process"
    /\ idx > Len(queryResult.results)
    /\ hasMore' = HasMoreOf(queryResult)
    /\ nextState' = NextStateOf(rtState, queryResult)
    /\ pc' = "return"
    /\ UNCHANGED <<rtState, schemaMapping, queryParams, queryResult, idx, result,
                   dbVars, remoteVars, reconciled, ddlIssued, schemaSync, outcomes, flattenFailed,
                   prevEmptyW, callVars>>

\* execute returns {changes: [], hasMore, nextState}; the runtime stores
\* nextState as the state of the next run.
Return ==
    /\ pc = "return"
    /\ rtState' = StateAfterReturn(rtState,
                    ExecuteOutput(RunSyncOutput(result, nextState, hasMore)).nextState)
    /\ prevEmptyW' = IF /\ rtState.present
                        /\ rtState.cursor = 0
                        /\ queryResult.results = <<>>
                        /\ ~queryResult.has_more
                     THEN rtState.lastSyncTime ELSE 0
    /\ pc' = "idle"
    /\ ResetLocals
    /\ UNCHANGED <<dbVars, remoteVars, callVars>>

\* execute's catch logs and rethrows: the invocation fails, the runtime keeps
\* the state it held.
Rethrow ==
    /\ pc = "threw"
    /\ pc' = "idle"
    /\ rtState' = StateAfterThrow(rtState)
    /\ ResetLocals
    /\ UNCHANGED <<dbVars, remoteVars, prevEmptyW, callVars>>

\* A property is added to the remote database.  Only fetchNotionSchema reads
\* the remote properties, once per invocation or call of the tool, so a
\* change at any other time is the same as one between them.
AddProperty(p) ==
    /\ pc = "idle"
    /\ ~InFlight(schemaSync)
    /\ p \notin remoteProps
    /\ remoteProps \cup {p} \in PropertySets
    /\ remoteProps' = remoteProps \cup {p}
    /\ call' = NoCall
    /\ UNCHANGED <<rtState, pc, schemaMapping, queryParams, queryResult, idx,
                   result, nextState, hasMore, dbVars, pages, reconciled,
                   ddlIssued, schemaSync, outcomes, flattenFailed, prevEmptyW, relRows>>

\* what can happen to a record before its upsert: its properties are
\* extracted and its content converted, the extraction throws, or the
\* conversion fails and gives the empty content
RecordOutcomes == {"ok", "extractFail", "contentFail"}

\* The worker: invocations of the sync by the runtime, one after the other,
\* anything failing.
Worker ==
    \/ Invoke
    \/ \E ok \in BOOLEAN : FetchSchema(ok)
    \/ \E refused \in BOOLEAN : SyncSchemaStep(refused)
    \/ \E ok \in BOOLEAN, resp \in Answers : QueryAny(ok, resp)
    \/ \E outcome \in RecordOutcomes : ProcessPage(outcome)
    \/ \E refused \in BOOLEAN : UpsertPage(refused)
    \/ FinishBatch
    \/ Return
    \/ Rethrow

Next ==
    \/ Worker
    \/ \E stmt \in OtherStatements : ExecuteRaw(stmt, 1)

Spec == Init /\ [][Next]_vars

\* The same program against a remote database whose owner adds properties
\* between invocations.
\* The properties added while the worker runs: "Priority" as a number, and
\* the two whose names give one column name.
DriftProps == {2, 4, 5}

NextDrift ==
    \/ Worker
    \/ \E stmt \in OtherStatements : ExecuteRaw(stmt, 1)
    \/ \E p \in DriftProps : AddProperty(p)

DriftSpec == Init /\ [][NextDrift]_vars

\* ------------------------------------------------------------ the record loop
\* runSync's loop over one response, seen on its own: the invocation carried
\* no state, reconciled the table (which existed with its columns) and got
\* any response; the table holds rows for any of the pages, stored by earlier
\* invocations.  Here the conversion of a record's content may fail too.
InitLoop ==
    /\ rtState = Absent
    /\ pc = "process"
    /\ schemaMapping = fetchNotionSchema({1})
    /\ queryParams = BuildQuery(Absent)
    /\ queryResult \in Responses
    /\ idx = 1
    /\ result = EmptyResult
    /\ nextState = Absent
    /\ hasMore = FALSE
    /\ tableExists = TRUE
    /\ tableCols = CreatedTable({1}).cols
    /\ tableTypes = CreatedTable({1}).types
    /\ \E present \in SUBSET PageIds :
          /\ rows = [p \in PageIds |-> IF p \in present THEN 1 ELSE 0]
          /\ rowContent = [p \in PageIds |->
                              IF p \in present THEN Markdown ELSE NoContent]
    /\ remoteProps = {1}
    /\ pages = [p \in PageIds |-> NoPage]
    /\ reconciled = TRUE
    /\ ddlIssued = 0
    /\ schemaSync = NoSchemaSync
    /\ outcomes = <<>>
    /\ flattenFailed = {}
    /\ prevEmptyW = 0
    /\ relRows = NoRows
    /\ call = NoCall

NextLoop ==
    \/ \E outcome \in RecordOutcomes : ProcessPage(outcome)
    \/ \E refused \in BOOLEAN : UpsertPage(refused)
    \/ FinishBatch
    \/ Return

LoopSpec == InitLoop /\ [][NextLoop]_vars


\* ------------------------------------------------------- upsertRecord alone
\* the variables of an invocation and of the table as runSync sees it
runVars == <<rtState, pc, schemaMapping, queryParams, queryResult, idx,
             result, nextState, hasMore, rows, rowContent, pages, reconciled,
             ddlIssued, outcomes, flattenFailed, prevEmptyW>>

syncVars == <<runVars, schemaSync>>

\* no invocation has run
NoSync ==
    /\ rtState = Absent
    /\ pc = "idle"
    /\ schemaMapping = <<>>
    /\ queryParams = NoQuery
    /\ queryResult = NoResult
    /\ idx = 0
    /\ result = EmptyResult
    /\ nextState = Absent
    /\ hasMore = FALSE
    /\ rows = [p \in PageIds |-> 0]
    /\ rowContent = [p \in PageIds |-> NoContent]
    /\ pages = [p \in PageIds |-> NoPage]
    /\ reconciled = FALSE
    /\ ddlIssued = 0
    /\ schemaSync = NoSchemaSync
    /\ outcomes = <<>>
    /\ flattenFailed = {}
    /\ prevEmptyW = 0

\* The Sync Records runSync can build for the mapping of {Title}: a page id,
\* the content ("" or markdown), the time of the upsert, and the title's
\* text when the page has that property.
Texts == {"", Markdown}

TitleColumn == PropertyMapping[1].columnName

Records ==
    [notion_page_id : PageIds,
     page_content   : Texts,
     synced_at      : Times,
     properties     : UNION { [D -> Texts] : D \in SUBSET {TitleColumn} }]

\* columnNames as runSync passes them: of the mapping the table was made
\* for, or of a mapping with a property (Priority) the table has no column of
KnownColumns ==
    { ColumnNames(fetchNotionSchema({1})), ColumnNames(fetchNotionSchema({1, 2})) }

\* The tables upsertRecord can meet: the one syncSchema creates for the
\* mapping of {Title}, holding for each page id no row or the row an earlier
\* upsert, made at time 1, left.
TitleTableCols == CreatedTable({1}).cols

StoredRows(p) ==
    { <<InsertedRow(r, TitleTableCols, ColumnNames(fetchNotionSchema({1})))>> :
        r \in { x \in Records : x.notion_page_id = p /\ x.synced_at = 1 } }

Tables == { t \in [PageIds -> {<<>>} \cup UNION { StoredRows(p) : p \in PageIds }] :
              \A p \in PageIds : t[p] \in {<<>>} \cup StoredRows(p) }

\* the same columns in a table that was not made by syncSchema: its
\* notion_page_id is plain text, no key, and it can hold two rows of one
\* page id
KeylessTypes ==
    { IF t.name = notion_page_id THEN [t EXCEPT !.type = "TEXT"] ELSE t :
        t \in CreatedTable({1}).types }

KeylessTables ==
    { NoRows,
      [p \in PageIds |->
          LET row == [c \in TitleTableCols |->
                         IF c = notion_page_id THEN ToString(p) ELSE Markdown]
          IN  IF p = 1 THEN <<row, row>> ELSE <<row>>] }

\* a table of that name with another purpose: no notion_page_id column
ForeignTypes == {[name |-> TitleColumn, type |-> "TEXT"]}

ForeignRows == [p \in PageIds |-> <<[c \in {TitleColumn} |-> Markdown]>>]

InitUpsert ==
    /\ NoSync
    /\ remoteProps = {1}
    /\ \/ /\ tableExists = TRUE
          /\ tableCols = TitleTableCols
          /\ tableTypes = CreatedTable({1}).types
          /\ relRows \in Tables
       \/ /\ tableExists = TRUE
          /\ tableCols = TitleTableCols
          /\ tableTypes = KeylessTypes
          /\ relRows \in KeylessTables
       \/ /\ tableExists = TRUE
          /\ tableCols = {TitleColumn}
          /\ tableTypes = ForeignTypes
          /\ relRows = ForeignRows
       \/ /\ tableExists = FALSE
          /\ tableCols = {}
          /\ tableTypes = {}
          /\ relRows = NoRows
    /\ call = NoCall

\* await upsertRecord(sql, tableName, record, columns), on a table as found
CallUpsertRecord(record, columns) ==
    LET ok  == UpsertAccepted(tableExists, tableCols, tableTypes, columns)
        old == relRows[record.notion_page_id]
    IN  /\ call = NoCall
        /\ relRows' = IF ok
                      THEN upsertRecord(relRows, tableCols, record, columns)
                      ELSE relRows
        /\ call' = [op |-> "upsertRecord", record |-> record,
                    columns |-> columns, ok |-> ok,
                    existed |-> old # <<>>,
                    cleared |-> { c \in Range(columns) :
                                     /\ ok
                                     /\ old # <<>>
                                     /\ old[1][c] # Null
                                     /\ ValueOf(record, c) = Null }]
        /\ UNCHANGED <<syncVars, tableExists, tableCols, tableTypes, remoteProps>>

\* a statement that names the column notion_page_id of the table is
\* accepted when the table exists and has that column
NamesPageId(exists, cols) == exists /\ notion_page_id \in cols

\* await deleteRecord(sql, tableName, pageId): DELETE FROM the table WHERE
\* notion_page_id = $1; a refused statement rejects the promise and leaves
\* the rows.  Exported by the database client; neither the sync nor the
\* tool calls it.
CallDeleteRecord(pageId) ==
    LET ok == NamesPageId(tableExists, tableCols)
    IN  /\ call = NoCall
        /\ relRows' = IF ok THEN [relRows EXCEPT ![pageId] = <<>>]
                      ELSE relRows
        /\ call' = [op |-> "deleteRecord", pageId |-> pageId, ok |-> ok,
                    deleted |-> IF ok THEN Len(relRows[pageId]) ELSE 0]
        /\ UNCHANGED <<syncVars, tableExists, tableCols, tableTypes,
                       remoteProps>>

\* the identifiers of the rows of the table, one per row
RECURSIVE StoredIds(_, _)
StoredIds(rowsOf, p) ==
    IF p > NumPages THEN <<>>
    ELSE [i \in DOMAIN rowsOf[p] |-> rowsOf[p][i][notion_page_id]]
            \o StoredIds(rowsOf, p + 1)

\* result.map((row) => row.notion_page_id) over the rows the statement
\* SELECT notion_page_id FROM the table returns: the statement asks for no
\* order, so the rows come in any order the database stores them in.
PageIdsOf(rowsOf) ==
    LET ids == StoredIds(rowsOf, 1)
        n   == Len(ids)
    IN  { [i \in 1..n |-> ids[f[i]]] :
             f \in { g \in [1..n -> 1..n] :
                        \A i, j \in 1..n : g[i] = g[j] => i = j } }

\* await getExistingPageIds(sql, tableName); a refused statement rejects
\* the promise.  Exported, called by nothing.
CallGetExistingPageIds ==
    /\ call = NoCall
    /\ IF NamesPageId(tableExists, tableCols)
       THEN \E output \in PageIdsOf(relRows) :
               call' = [op |-> "getExistingPageIds", ok |-> TRUE,
                        output |-> output]
       ELSE call' = [op |-> "getExistingPageIds", ok |-> FALSE,
                     output |-> <<>>]
    /\ UNCHANGED <<syncVars, tableExists, tableCols, tableTypes, remoteProps,
                   relRows>>

NextUpsert ==
    \/ \E record \in Records, columns \in KnownColumns :
          CallUpsertRecord(record, columns)
    \/ \E pageId \in PageIds : CallDeleteRecord(pageId)
    \/ CallGetExistingPageIds

UpsertSpec == InitUpsert /\ [][NextUpsert]_vars

\* --------------------------------------------------------- syncSchema alone
\* The tables syncSchema can find: none, or one with any of the columns a
\* mapping or the special columns can name, each with a type it can have
\* been given, holding a row per page id with a value in every cell.
ColumnUniverse ==
    Range(SpecialCols) \cup {PropertyMapping[i].columnName : i \in MappedProps}

FoundTypes(c) ==
    IF c \in Range(SpecialCols)
    THEN {SpecialTypes[i] : i \in {j \in DOMAIN SpecialCols : SpecialCols[j] = c}}
    ELSE {PropertyMapping[i].postgresType :
             i \in {j \in MappedProps : PropertyMapping[j].columnName = c}}

FoundTypings(cols) ==
    { { [name |-> c, type |-> f[c]] : c \in cols } :
        f \in { g \in [cols -> UNION {FoundTypes(c) : c \in ColumnUniverse}] :
                   \A c \in cols : g[c] \in FoundTypes(c) } }

FoundRows(cols) ==
    [p \in PageIds |->
        << [c \in cols |-> IF c = notion_page_id THEN ToString(p)
                           ELSE Markdown] >>]

InitSchema ==
    /\ NoSync
    /\ remoteProps = {1}
    /\ \/ /\ tableExists = FALSE
          /\ tableCols = {}
          /\ tableTypes = {}
          /\ relRows = NoRows
       \/ /\ tableExists = TRUE
          /\ tableCols \in SUBSET ColumnUniverse
          /\ tableTypes \in FoundTypings(tableCols)
          /\ relRows = FoundRows(tableCols)
    /\ call = NoCall

\* fetchNotionSchema, then syncSchema(sql, tableName, schemaMapping) is
\* called, as the syncSchema tool and runSync call it.  The history keeps
\* how many of its two reads the call has made and what they returned, the
\* statements it issued, how many of the calls it awaited threw, and its
\* SchemaSyncResult so far.
CallSyncSchema ==
    /\ ~InFlight(schemaSync)
    /\ schemaSync' = Called
    /\ call' = [op |-> "syncSchema",
                reads |-> 0,
                existed |-> FALSE,
                colsBefore |-> {},
                statements |-> <<>>,
                thrown |-> 0,
                failed |-> FALSE,
                created |-> FALSE,
                columnsAdded |-> <<>>,
                repeat |-> /\ call.op = "syncSchema"
                           /\ ~call.failed]
    /\ UNCHANGED <<runVars, dbVars, remoteProps, relRows>>

\* what the call awaited by the syncSchema in flight does when it settles
Awaited(refused) ==
    [statement |-> schemaSync.stage = "executeRaw",
     threw |-> IF schemaSync.stage = "executeRaw"
               THEN executeRaw(Table, schemaSync.plan[schemaSync.next],
                               refused).threw
               ELSE refused]

\* one await of that call settles
AwaitCallSyncSchema(refused, now) ==
    /\ call.op = "syncSchema"
    /\ AwaitSyncSchema(fetchNotionSchema(remoteProps), refused, now)
    /\ call' = [call EXCEPT
                   !.reads = IF ~Awaited(refused).statement /\ ~refused
                             THEN @ + 1 ELSE @,
                   !.existed = IF schemaSync.stage = "tableExists" /\ ~refused
                               THEN tableExists ELSE @,
                   !.colsBefore = IF schemaSync.stage = "getTableColumns"
                                     /\ ~refused
                                  THEN tableCols ELSE @,
                   !.statements = IF Awaited(refused).statement
                                  THEN Append(@, schemaSync.plan[schemaSync.next])
                                  ELSE @,
                   !.thrown = IF Awaited(refused).threw THEN @ + 1 ELSE @,
                   !.failed = schemaSync'.stage = "threw",
                   !.created = schemaSync'.created,
                   !.columnsAdded = schemaSync'.columnsAdded]
    /\ UNCHANGED <<runVars, remoteProps>>

\* A property is removed from the remote database (its title property
\* cannot be); removing one and adding another of the same name is a change
\* of its kind.
RemoveProperty(p) ==
    /\ pc = "idle"
    /\ ~InFlight(schemaSync)
    /\ p \in remoteProps
    /\ PropDefs[p].type # "title"
    /\ remoteProps' = remoteProps \ {p}
    /\ call' = NoCall
    /\ UNCHANGED <<rtState, pc, schemaMapping, queryParams, queryResult, idx,
                   result, nextState, hasMore, dbVars, pages, reconciled,
                   ddlIssued, schemaSync, outcomes, flattenFailed, prevEmptyW, relRows>>

\* The properties that come and go while syncSchema is followed on its own:
\* "Priority" as a number and as text, and the property whose column is named
\* like a special column.  The table found may hold any other column.
SchemaProps == {2, 3, 6}

NextSchema ==
    \/ CallSyncSchema
    \/ \E refused \in BOOLEAN, now \in Times : AwaitCallSyncSchema(refused, now)
    \/ \E stmt \in Racing, now \in Times : ExecuteRaw(stmt, now)
    \/ \E p \in SchemaProps : AddProperty(p)
    \/ \E p \in SchemaProps : RemoveProperty(p)

SchemaSpec == InitSchema /\ [][NextSchema]_vars

\* --------------------------------------------------- sanitizeColumnName alone
\* The names it is given: every string of at most MaxLen characters over an
\* upper-case letter, a lower-case letter, a digit, the underscore, two
\* characters outside [a-z0-9_], an upper-case letter of Latin-1, the Kelvin
\* sign and the dotted capital I, and the name "Due Date!!".
NameChars == {"A", "b", "7", "_", " ", "!", "É", KelvinSign, DottedI}

DueDateBang == <<"D","u","e"," ","D","a","t","e","!","!">>

Names == UNION { [1..n -> NameChars] : n \in 0..MaxLen } \cup {DueDateBang}

InitSanitize ==
    /\ NoSync
    /\ remoteProps = {1}
    /\ tableExists = FALSE
    /\ tableCols = {}
    /\ tableTypes = {}
    /\ relRows = NoRows
    /\ \E name \in Names : call = [op |-> "name", name |-> name]

\* sanitizeColumnName(name), and again on what it returned
CallSanitize ==
    /\ call.op = "name"
    /\ call' = [op |-> "sanitizeColumnName",
                name |-> call.name,
                output |-> sanitizeColumnName(call.name),
                again |-> sanitizeColumnName(sanitizeColumnName(call.name))]
    /\ UNCHANGED <<syncVars, tableExists, tableCols, tableTypes, remoteProps,
                   relRows>>

SanitizeSpec == InitSanitize /\ [][CallSanitize]_vars

\* ---------------------------------------------------- fetchNotionSchema alone
\* the kinds a property of a Notion database can declare: those of
\* NotionPropertyType and two that it lacks
Kinds ==
    {"title", "rich_text", "number", "select", "multi_select", "date",
     "checkbox", "url", "email", "phone_number", "formula", "relation",
     "rollup", "created_time", "created_by", "last_edited_time",
     "last_edited_by", "files", "people", "status", "unique_id",
     "button", "verification"}

\* a remote database with any properties, and a kind to look up
InitFetch ==
    /\ NoSync
    /\ remoteProps \in PropertySets
    /\ tableExists = FALSE
    /\ tableCols = {}
    /\ tableTypes = {}
    /\ relRows = NoRows
    /\ \E kind \in Kinds : call = [op |-> "kind", kind |-> kind]

\* what await notion.databases.retrieve gives: the call rejects, or it
\* returns a database object, a partial one (without properties) or a full
\* one
RetrieveAnswers == {"rejected", "partial", "full"}

\* await fetchNotionSchema(notion, databaseId): the rejection of the retrieve
\* call propagates; a database object without properties makes it throw
\* "Unable to retrieve database properties"; else the mapping is built and
\* returned.  The lookup TYPE_MAP[kind] it does for a property of the kind
\* drawn is kept next to its result.
CallFetchNotionSchema(answer) ==
    /\ call.op = "kind"
    /\ call' = [op |-> "fetchNotionSchema",
                answer |-> answer,
                retrieved |-> answer # "rejected",
                threw |-> answer = "rejected" \/ answer = "partial",
                mapping |-> IF answer = "full"
                            THEN fetchNotionSchema(remoteProps) ELSE <<>>,
                kind |-> call.kind,
                postgresType |-> TYPE_MAP(call.kind)]
    /\ UNCHANGED <<syncVars, tableExists, tableCols, tableTypes, remoteProps,
                   relRows>>

NextFetch == \E answer \in RetrieveAnswers : CallFetchNotionSchema(answer)

FetchSpec == InitFetch /\ [][NextFetch]_vars

\* ---------------------------------------------------------- the syncSchema tool
\* what the tool's try block can throw: getSqlClient (configuration),
\* fetchNotionSchema (the retrieve call), or syncSchema: the DDL statement
\* number stmt, or one of the two queries before the statements (stmt 0)
NoError == [what |-> "none", stmt |-> 0]

\* no string yet: execute has not returned
NoOutput == [text |-> "none", error |-> NoError, columns |-> <<>>, count |-> 0]

\* a syncSchema call as its caller sees it
ResultOf(locals) ==
    [failed |-> locals.stage = "threw",
     issued |-> locals.next,
     created |-> locals.created,
     columnsAdded |-> locals.columnsAdded]

ToolError(configOk, fetchOk, r) ==
    IF ~configOk THEN [what |-> "configuration", stmt |-> 0]
    ELSE IF ~fetchOk THEN [what |-> "schema fetch", stmt |-> 0]
    ELSE IF r.failed
    THEN [what |-> IF r.issued = 0 THEN "query" ELSE "statement",
          stmt |-> r.issued]
    ELSE NoError

\* syncSchemaTool whose summary looks at columnsAdded only
syncSchemaTool_IgnoresCreated(configOk, fetchOk, r, propertyCount) ==
    LET error == ToolError(configOk, fetchOk, r)
    IN  IF error # NoError
        THEN [text |-> "Schema sync failed", error |-> error,
              columns |-> <<>>, count |-> 0]
        ELSE IF r.columnsAdded # <<>>
        THEN [text |-> "Updated table. Added columns", error |-> NoError,
              columns |-> r.columnsAdded, count |-> 0]
        ELSE [text |-> "Schema is up to date", error |-> NoError,
              columns |-> <<>>, count |-> propertyCount]

\* The string the tool's execute resolves to, by its parts: the summary of a
\* successful reconciliation r, or, from the catch block, "Schema sync
\* failed: " followed by the error.
syncSchemaTool(configOk, fetchOk, r, propertyCount) ==
    LET error == ToolError(configOk, fetchOk, r)
    IN  IF error # NoError
        THEN [text |-> "Schema sync failed", error |-> error,
              columns |-> <<>>, count |-> 0]
        ELSE IF r.created
        THEN [text |-> "Created new table", error |-> NoError,
              columns |-> <<>>, count |-> propertyCount]
        ELSE IF r.columnsAdded # <<>>
        THEN [text |-> "Updated table. Added columns", error |-> NoError,
              columns |-> r.columnsAdded, count |-> 0]
        ELSE [text |-> "Schema is up to date", error |-> NoError,
              columns |-> <<>>, count |-> propertyCount]

\* The tool is called once, on a table as found and a remote database with
\* any properties.
InitTool ==
    /\ NoSync
    /\ remoteProps \in { S \in PropertySets : 1 \in S }
    /\ \/ /\ tableExists = FALSE
          /\ tableCols = {}
          /\ tableTypes = {}
       \/ /\ tableExists = TRUE
          /\ tableCols \in SUBSET ColumnUniverse
          /\ tableTypes \in FoundTypings(tableCols)
    /\ relRows = NoRows
    /\ call = NoCall

\* The tool's execute up to the call of syncSchema: getSqlClient and env
\* (which throw on an invalid configuration), await fetchNotionSchema (which
\* throws when the retrieve call fails); what is thrown is caught and
\* execute returns the failure string.
CallSyncSchemaTool(configOk, fetchOk) ==
    /\ call = NoCall
    /\ schemaSync' = IF configOk /\ fetchOk THEN Called ELSE schemaSync
    /\ call' = [op |-> "syncSchema tool",
                returned |-> ~(configOk /\ fetchOk),
                existed |-> FALSE,
                thrown |-> ToolError(configOk, fetchOk, ResultOf(Called)).what,
                refused |-> 0,
                columnsAdded |-> <<>>,
                output |-> IF configOk /\ fetchOk THEN NoOutput
                           ELSE syncSchemaTool(configOk, fetchOk,
                                               ResultOf(Called), 0)]
    /\ UNCHANGED <<runVars, dbVars, remoteProps, relRows>>

\* await syncSchema, one await of it at a time; when it returns or throws,
\* execute returns its summary or, from the catch, the failure string
AwaitSyncSchemaTool(refused) ==
    /\ call.op = "syncSchema tool"
    /\ AwaitSyncSchema(fetchNotionSchema(remoteProps), refused, 1)
    /\ LET r == ResultOf(schemaSync')
       IN  call' = [call EXCEPT
                       !.returned = ~InFlight(schemaSync'),
                       !.existed = IF schemaSync.stage = "tableExists"
                                      /\ ~refused
                                   THEN tableExists ELSE @,
                       !.thrown = ToolError(TRUE, TRUE, r).what,
                       !.refused = ToolError(TRUE, TRUE, r).stmt,
                       !.columnsAdded = r.columnsAdded,
                       !.output = IF InFlight(schemaSync') THEN NoOutput
                                  ELSE syncSchemaTool(TRUE, TRUE, r,
                                          Len(fetchNotionSchema(remoteProps)))]
    /\ UNCHANGED <<runVars, remoteProps>>

NextTool ==
    \/ \E configOk, fetchOk \in BOOLEAN : CallSyncSchemaTool(configOk, fetchOk)
    \/ \E refused \in BOOLEAN : AwaitSyncSchemaTool(refused)
    \/ \E stmt \in Racing : ExecuteRaw(stmt, 1)

ToolSpec == InitTool /\ [][NextTool]_vars

\* ------------------------------------------- one invocation, await by await
\* runSync followed through every call it makes, with the calls in the
\* order they are made kept as a history: the invocation was just started
\* with no state, a watermark, a cursor, or both; the remote database has
\* the title property, or that and Priority (which the table of a carried
\* state has no column for); nothing but upserts fails.
TraceStates == {Absent, SyncState(0, 1), SyncState(1, 0), SyncState(1, 1)}

Event(name, record, columns) ==
    [call |-> name, record |-> record, columns |-> columns]

Logged(event) == [call EXCEPT !.log = Append(@, event)]

\* AwaitsUpsert with upsertRecord called without await: the loop goes on
\* while the statement is in flight
AwaitsUpsert_FireAndForget == FALSE

\* await upsertRecord(...): the loop waits for the upsert of a record
AwaitsUpsert == TRUE

InitTrace ==
    /\ rtState \in TraceStates
    /\ pc = "fetchSchema"
    /\ schemaMapping = <<>>
    /\ queryParams = NoQuery
    /\ queryResult = NoResult
    /\ idx = 0
    /\ result = EmptyResult
    /\ nextState = Absent
    /\ hasMore = FALSE
    /\ remoteProps \in {{1}, {1, 2}}
    /\ tableExists = rtState.present
    /\ tableCols = IF tableExists THEN CreatedTable({1}).cols ELSE {}
    /\ tableTypes = IF tableExists THEN CreatedTable({1}).types ELSE {}
    /\ rows = [p \in PageIds |-> 0]
    /\ rowContent = [p \in PageIds |-> NoContent]
    /\ pages = [p \in PageIds |-> NoPage]
    /\ reconciled = FALSE
    /\ ddlIssued = 0
    /\ schemaSync = NoSchemaSync
    /\ outcomes = <<>>
    /\ flattenFailed = {}
    /\ prevEmptyW = 0
    /\ relRows = NoRows
    /\ call = [op |-> "runSync", log |-> <<>>, inFlight |-> {}]

\* Step 1: await fetchNotionSchema (notion.databases.retrieve)
TraceFetchSchema ==
    /\ pc = "fetchSchema"
    /\ schemaMapping' = fetchNotionSchema(remoteProps)
    /\ pc' = IF NeedsSchemaSync(rtState) THEN "syncSchema" ELSE "query"
    /\ schemaSync' = IF NeedsSchemaSync(rtState) THEN Called ELSE schemaSync
    /\ call' = Logged(Event("databases.retrieve", 0, <<>>))
    /\ UNCHANGED <<rtState, queryParams, queryResult, idx, result, nextState,
                   hasMore, dbVars, remoteVars, reconciled, ddlIssued,
                   outcomes, flattenFailed, prevEmptyW, relRows>>

\* Step 2: await syncSchema, one await of it at a time, each call it makes
\* kept in the history
TraceSyncSchema(refused) ==
    /\ pc = "syncSchema"
    /\ AwaitSyncSchema(schemaMapping, refused, 1)
    /\ ddlIssued' = IF schemaSync.stage = "executeRaw" THEN ddlIssued + 1
                    ELSE ddlIssued
    /\ reconciled' = (schemaSync'.stage = "returned")
    /\ pc' = IF schemaSync'.stage = "returned" THEN "query"
             ELSE IF schemaSync'.stage = "threw" THEN "threw"
             ELSE pc
    /\ call' = Logged(Event(schemaSync.stage, 0, <<>>))
    /\ UNCHANGED <<rtState, schemaMapping, queryParams, queryResult, idx,
                   result, nextState, hasMore, rows, rowContent, remoteVars,
                   outcomes, flattenFailed, prevEmptyW>>

\* Step 3: await notion.databases.query
TraceQuery(resp) ==
    /\ pc = "query"
    /\ queryParams' = BuildQuery(rtState)
    /\ queryResult' = resp
    /\ idx' = 1
    /\ pc' = "process"
    /\ call' = Logged(Event("databases.query", 0, <<>>))
    /\ UNCHANGED <<rtState, schemaMapping, result, nextState, hasMore, dbVars,
                   remoteVars, reconciled, ddlIssued, schemaSync, outcomes, flattenFailed,
                   prevEmptyW, relRows>>

\* Step 4, loop head: a result without properties is skipped
TraceSkip ==
    /\ pc = "process"
    /\ idx <= Len(queryResult.results)
    /\ ~queryResult.results[idx].full
    /\ outcomes' = Append(outcomes, "skipped")
    /\ idx' = idx + 1
    /\ UNCHANGED <<rtState, pc, schemaMapping, queryParams, queryResult,
                   result, nextState, hasMore, dbVars, remoteVars, reconciled,
                   ddlIssued, schemaSync, flattenFailed, prevEmptyW, callVars>>

\* the properties of the record are extracted (no await) and pageToMarkdown
\* is called
TraceExtract ==
    /\ pc = "process"
    /\ idx <= Len(queryResult.results)
    /\ queryResult.results[idx].full
    /\ pc' = "convert"
    /\ call' = Logged(Event("pageToMarkdown", idx, <<>>))
    /\ UNCHANGED <<rtState, schemaMapping, queryParams, queryResult, idx,
                   result, nextState, hasMore, dbVars, remoteVars, reconciled,
                   ddlIssued, schemaSync, outcomes, flattenFailed, prevEmptyW, relRows>>

\* pageToMarkdown returned; the record is built and upsertRecord is called
\* with columnNames
TraceConverted ==
    /\ pc = "convert"
    /\ call' = [op |-> "runSync",
                log |-> Append(call.log,
                               Event("upsertRecord", idx,
                                     ColumnNames(schemaMapping))),
                inFlight |-> call.inFlight \cup {idx}]
    /\ IF AwaitsUpsert
       THEN pc' = "upsert" /\ idx' = idx
       ELSE pc' = "process" /\ idx' = idx + 1
    /\ UNCHANGED <<rtState, schemaMapping, queryParams, queryResult, result,
                   nextState, hasMore, dbVars, remoteVars, reconciled,
                   ddlIssued, schemaSync, outcomes, flattenFailed, prevEmptyW, relRows>>

\* the upsert of record i settles: stored, or refused (ok = FALSE: for a
\* reason of the database's own) and caught by the loop's catch
TraceUpserted(i, ok) ==
    /\ i \in call.inFlight
    /\ LET page   == queryResult.results[i]
           stored == ok /\ UpsertAccepted(tableExists, tableCols, tableTypes,
                                          ColumnNames(schemaMapping))
       IN  /\ rows' = IF stored THEN RowsAfterUpsert(rows, page)
                       ELSE rows
           /\ rowContent' = IF stored
                             THEN [rowContent EXCEPT ![page.id] = Markdown]
                             ELSE rowContent
           /\ result' = IF stored THEN RecordSynced(result)
                         ELSE RecordFailed(result, page.id)
           /\ outcomes' = Append(outcomes,
                                  IF stored THEN "upserted" ELSE "failed")
    /\ call' = [op |-> "runSync",
                log |-> Append(call.log, Event("settled", i, <<>>)),
                inFlight |-> call.inFlight \ {i}]
    /\ IF pc = "upsert" /\ i = idx
       THEN pc' = "process" /\ idx' = NextIndex(idx, Len(queryResult.results), FALSE)
       ELSE pc' = pc /\ idx' = idx
    /\ UNCHANGED <<rtState, schemaMapping, queryParams, queryResult,
                   nextState, hasMore, tableExists, tableCols, tableTypes,
                   remoteVars, reconciled, ddlIssued, schemaSync, flattenFailed,
                   prevEmptyW, relRows>>

\* Step 5 and the return
TraceFinish ==
    /\ pc = "process"
    /\ idx > Len(queryResult.results)
    /\ hasMore' = HasMoreOf(queryResult)
    /\ nextState' = NextStateOf(rtState, queryResult)
    /\ pc' = "return"
    /\ UNCHANGED <<rtState, schemaMapping, queryParams, queryResult, idx,
                   result, dbVars, remoteVars, reconciled, ddlIssued, schemaSync, outcomes,
                   flattenFailed, prevEmptyW, callVars>>

NextTrace ==
    \/ TraceFetchSchema
    \/ \E refused \in BOOLEAN : TraceSyncSchema(refused)
    \/ \E stmt \in OtherStatements : ExecuteRaw(stmt, 1)
    \/ \E resp \in Answers : TraceQuery(resp)
    \/ TraceSkip
    \/ TraceExtract
    \/ TraceConverted
    \/ \E i \in 1..MaxResults, ok \in BOOLEAN : TraceUpserted(i, ok)
    \/ TraceFinish

TraceSpec == InitTrace /\ [][NextTrace]_vars

\* ------------------------------------------------- a remote database of pages
\* The remote keeps pages with their last edit time and serves the query as
\* asked: the pages after the time filter, sorted ascending by edit time (ties
\* by id), from the position the cursor names, page_size at a time.  A cursor
\* names a position of that order: the sort key of the next page.
Key(t, id) == t * (NumPages + 1) + id
KeyTime(k) == k \div (NumPages + 1)
KeyId(k)   == k % (NumPages + 1)

PageKey(p) == Key(pages[p].last_edited_time, p)

Matching(q) ==
    { p \in PageIds :
        /\ pages[p].last_edited_time # 0
        /\ q.start_cursor # 0 => PageKey(p) >= q.start_cursor
        /\ q.after # 0 => pages[p].last_edited_time > q.after }

RECURSIVE SortByKey(_)
SortByKey(S) ==
    IF S = {} THEN <<>>
    ELSE LET first == CHOOSE p \in S : \A o \in S : PageKey(p) <= PageKey(o)
         IN  <<first>> \o SortByKey(S \ {first})

RemotePage(q, pageSize) ==
    LET order == SortByKey(Matching(q))
        n     == IF Len(order) < pageSize THEN Len(order) ELSE pageSize
    IN  [results |-> [i \in 1..n |->
                        [id |-> order[i],
                         last_edited_time |-> pages[order[i]].last_edited_time,
                         full |-> TRUE,
                         val |-> pages[order[i]].val]],
         has_more |-> Len(order) > n,
         next_cursor |-> IF Len(order) > n THEN PageKey(order[n + 1]) ELSE 0]

RemoteResponse(q) == RemotePage(q, PageSize)

\* Step 3 against the modelled remote database
QueryRemote(ok) ==
    /\ pc = "query"
    /\ queryParams' = BuildQuery(rtState)
    /\ IF ok
       THEN /\ queryResult' = RemoteResponse(BuildQuery(rtState))
            /\ idx' = 1
            /\ pc' = "process"
       ELSE /\ queryResult' = queryResult
            /\ idx' = idx
            /\ pc' = "threw"
    /\ UNCHANGED <<rtState, schemaMapping, result, nextState, hasMore, dbVars,
                   remoteVars, reconciled, ddlIssued, schemaSync, outcomes, flattenFailed, prevEmptyW, callVars>>

\* The newest edit time of the remote database.  Timestamps have a finite
\* resolution (Notion rounds last_edited_time to the minute): an edit is
\* stamped with the newest time so far or with a later one.
Newest ==
    LET ts == {pages[p].last_edited_time : p \in PageIds}
    IN  CHOOSE t \in ts : \A o \in ts : o <= t

EditTimes == {t \in {Newest, Newest + 1} : t >= 1 /\ t <= MaxClock}

\* A page is created in the remote database, at any moment.
CreatePage(p, t, v) ==
    /\ pages[p].last_edited_time = 0
    /\ t \in EditTimes
    /\ pages' = [pages EXCEPT ![p] = [last_edited_time |-> t, val |-> v]]
    /\ UNCHANGED <<rtState, pc, schemaMapping, queryParams, queryResult, idx,
                   result, nextState, hasMore, dbVars, remoteProps, reconciled,
                   ddlIssued, schemaSync, outcomes, flattenFailed, prevEmptyW, callVars>>

\* A page of the remote database is edited, at any moment: its content
\* changes and it is stamped.
EditPage(p, t, v) ==
    /\ pages[p].last_edited_time # 0
    /\ t \in EditTimes
    /\ v # pages[p].val
    /\ pages' = [pages EXCEPT ![p] = [last_edited_time |-> t, val |-> v]]
    /\ UNCHANGED <<rtState, pc, schemaMapping, queryParams, queryResult, idx,
                   result, nextState, hasMore, dbVars, remoteProps, reconciled,
                   ddlIssued, schemaSync, outcomes, flattenFailed, prevEmptyW, callVars>>

\* Only the order of timestamps matters to the remote and to runSync, so the
\* timestamps in use are renumbered 1, 2, ... in their order whenever that
\* closes a gap: time goes on without bound while the ones in use stay within
\* 1..MaxClock.  Done between invocations, when the timestamps live in the
\* pages and in the carried state only.
TimesInUse ==
    ({pages[p].last_edited_time : p \in PageIds}
        \cup {rtState.lastSyncTime, KeyTime(rtState.cursor), prevEmptyW}) \ {0}

Rank(t) == Cardinality({s \in TimesInUse : s <= t})

Renumber ==
    /\ pc = "idle"
    /\ \E t \in TimesInUse : Rank(t) # t
    /\ pages' = [p \in PageIds |->
                    [pages[p] EXCEPT !.last_edited_time = Rank(@)]]
    /\ rtState' = [rtState EXCEPT
                      !.lastSyncTime = Rank(@),
                      !.cursor = IF @ = 0 THEN 0
                                 ELSE Key(Rank(KeyTime(@)), KeyId(@))]
    /\ prevEmptyW' = Rank(prevEmptyW)
    /\ UNCHANGED <<pc, schemaMapping, queryParams, queryResult, idx, result,
                   nextState, hasMore, dbVars, remoteProps, reconciled,
                   ddlIssued, schemaSync, outcomes, flattenFailed, callVars>>

\* The sync cycle against the modelled remote, nothing failing, with pages
\* created and edited at any moment.
SyncStep ==
    \/ Invoke
    \/ FetchSchema(TRUE)
    \/ SyncSchemaStep(FALSE)
    \/ QueryRemote(TRUE)
    \/ ProcessPage("ok")
    \/ UpsertPage(FALSE)
    \/ FinishBatch
    \/ Return
    \/ Rethrow

NextLive ==
    \/ SyncStep
    \/ \E stmt \in OtherStatements : ExecuteRaw(stmt, 1)
    \/ \E p \in PageIds, t \in 1..MaxClock, v \in Vals : CreatePage(p, t, v)
    \/ \E p \in PageIds, t \in 1..MaxClock, v \in Vals : EditPage(p, t, v)
    \/ Renumber

\* The runtime keeps invoking the sync (schedule: "continuous"), and every
\* await of an invocation completes.
LiveSpec == Init /\ [][NextLive]_vars /\ WF_vars(SyncStep)

\* The same, with records that fail: the extraction of a record may throw and
\* the database may refuse its upsert; the catch of the loop counts it and the
\* loop goes on (lines 109-114).
FaultyStep ==
    \/ Invoke
    \/ FetchSchema(TRUE)
    \/ SyncSchemaStep(FALSE)
    \/ QueryRemote(TRUE)
    \/ \E outcome \in RecordOutcomes : ProcessPage(outcome)
    \/ \E refused \in BOOLEAN : UpsertPage(refused)
    \/ FinishBatch
    \/ Return
    \/ Rethrow

NextFaulty ==
    \/ FaultyStep
    \/ \E stmt \in OtherStatements : ExecuteRaw(stmt, 1)
    \/ \E p \in PageIds, t \in 1..MaxClock, v \in Vals : CreatePage(p, t, v)
    \/ \E p \in PageIds, t \in 1..MaxClock, v \in Vals : EditPage(p, t, v)
    \/ Renumber

FaultySpec == Init /\ [][NextFaulty]_vars /\ WF_vars(FaultyStep)

\* ------------------------------------------- an invocation that is interrupted
\* A remote database nobody edits: any pages, each with an edit time (only
\* the order of the times matters, so the times in use are 1, 2, ... without
\* a gap) and its content.
StaticPages ==
    { f \in [PageIds -> [last_edited_time : 0..MaxClock, val : {1}]] :
        \A p \in PageIds :
            f[p].last_edited_time > 1
                => \E o \in PageIds :
                      f[o].last_edited_time = f[p].last_edited_time - 1 }

\* The states the runtime can hold against such a remote: none, a watermark,
\* or the cursor of a page with or without a watermark next to it.
CarriedStates(pgs) ==
    {Absent}
    \cup { SyncState(0, t) : t \in 1..MaxClock }
    \cup { SyncState(Key(pgs[p].last_edited_time, p), w) :
              p \in { o \in PageIds : pgs[o].last_edited_time # 0 },
              w \in 0..MaxClock }

\* An invocation was just started by the runtime with the state it held; the
\* table, when there is one, has the columns of the mapping and holds for
\* any page id no row, the row of the page as it is, or an older one; the
\* remote serves pages of 1..MaxBatch records.  The invocation is first run
\* to its end without interruption, then run from the same start with
\* interruptions.  The history keeps the start (carried state, table, rows),
\* what the uninterrupted run ended with, and whether an interruption came
\* in the middle of a batch: after an upsert, with a record still to go.
NoReference ==
    [rows |-> [p \in PageIds |-> 0],
     rowContent |-> [p \in PageIds |-> NoContent],
     nextState |-> Absent,
     hasMore |-> FALSE]

InitRetry ==
    /\ pages \in StaticPages
    /\ rtState \in CarriedStates(pages)
    /\ pc = "fetchSchema"
    /\ schemaMapping = <<>>
    /\ queryParams = NoQuery
    /\ queryResult = NoResult
    /\ idx = 0
    /\ result = EmptyResult
    /\ nextState = Absent
    /\ hasMore = FALSE
    /\ remoteProps = {1}
    /\ tableExists \in (IF rtState.present THEN {TRUE} ELSE BOOLEAN)
    /\ tableCols = IF tableExists THEN CreatedTable({1}).cols ELSE {}
    /\ tableTypes = IF tableExists THEN CreatedTable({1}).types ELSE {}
    /\ rows \in (IF tableExists THEN [PageIds -> {0} \cup Vals]
                 ELSE {[p \in PageIds |-> 0]})
    /\ rowContent = [p \in PageIds |->
                        IF rows[p] # 0 THEN Markdown ELSE NoContent]
    /\ reconciled = FALSE
    /\ ddlIssued = 0
    /\ schemaSync = NoSchemaSync
    /\ outcomes = <<>>
    /\ flattenFailed = {}
    /\ prevEmptyW = 0
    /\ relRows = NoRows
    /\ \E pageSize \in 1..MaxBatch :
          call = [op |-> "runSync", pageSize |-> pageSize, state |-> rtState,
                  table |-> Table, rows |-> rows, rowContent |-> rowContent,
                  run |-> "uninterrupted", reference |-> NoReference,
                  interrupted |-> FALSE, partial |-> FALSE]

\* Step 3 against the remote of this start
QueryRetry == QueryAny(TRUE, RemotePage(BuildQuery(rtState), call.pageSize))

\* The uninterrupted run is at its return: what it ends with is kept, and
\* the table and the carried state are put back to the start for the run
\* that is interrupted.
StartOver ==
    /\ pc = "return"
    /\ call.run = "uninterrupted"
    /\ call' = [call EXCEPT !.run = "interrupted",
                            !.reference = [rows |-> rows,
                                           rowContent |-> rowContent,
                                           nextState |-> nextState,
                                           hasMore |-> hasMore]]
    /\ rtState' = call.state
    /\ tableExists' = call.table.exists
    /\ tableCols' = call.table.cols
    /\ tableTypes' = call.table.types
    /\ rows' = call.rows
    /\ rowContent' = call.rowContent
    /\ pc' = "fetchSchema"
    /\ ResetLocals
    /\ UNCHANGED <<remoteVars, prevEmptyW, relRows>>

\* The process dies in the loop, between two records or before the upsert
\* it awaits is committed (after any number of the upserts, each committed
\* on its own), or the invocation throws: nothing is returned, the runtime
\* keeps the state it held and starts the invocation again.
Crash ==
    /\ call.run = "interrupted"
    /\ pc \in {"process", "upsert", "threw"}
    /\ rtState' = StateAfterThrow(rtState)
    /\ pc' = "fetchSchema"
    /\ ResetLocals
    /\ call' = [call EXCEPT
                   !.interrupted = TRUE,
                   !.partial = \/ @
                               \/ /\ pc \in {"process", "upsert"}
                                  /\ CountOfUpserts(outcomes) >= 1
                                  /\ Len(outcomes) < Len(queryResult.results)]
    /\ UNCHANGED <<dbVars, remoteVars, prevEmptyW, relRows>>

NextRetry ==
    \/ FetchSchema(TRUE)
    \/ SyncSchemaStep(FALSE)
    \/ QueryRetry
    \/ ProcessPage("ok")
    \/ UpsertPage(FALSE)
    \/ StartOver
    \/ Crash
    \/ \E stmt \in OtherStatements : ExecuteRaw(stmt, 1)
    \/ FinishBatch
    \/ call.run = "interrupted" /\ Return

RetrySpec == InitRetry /\ [][NextRetry]_vars

\* --------------------------------------- the chain against an unedited remote
\* The runtime invokes the sync from no state, feeding each invocation the
\* nextState of the one before, against a remote database nobody edits;
\* nothing fails and every await completes.
InitStatic ==
    /\ rtState = Absent
    /\ pc = "idle"
    /\ schemaMapping = <<>>
    /\ queryParams = NoQuery
    /\ queryResult = NoResult
    /\ idx = 0
    /\ result = EmptyResult
    /\ nextState = Absent
    /\ hasMore = FALSE
    /\ tableExists = FALSE
    /\ tableCols = {}
    /\ tableTypes = {}
    /\ rows = [p \in PageIds |-> 0]
    /\ rowContent = [p \in PageIds |-> NoContent]
    /\ remoteProps = {1}
    /\ pages \in StaticPages
    /\ reconciled = FALSE
    /\ ddlIssued = 0
    /\ schemaSync = NoSchemaSync
    /\ outcomes = <<>>
    /\ flattenFailed = {}
    /\ prevEmptyW = 0
    /\ relRows = NoRows
    /\ call = NoCall

NextStatic ==
    \/ SyncStep
    \/ \E stmt \in OtherStatements : ExecuteRaw(stmt, 1)

StaticSpec == InitStatic /\ [][NextStatic]_vars /\ WF_vars(SyncStep)

\* ------------------------------------------- a remote that also loses pages
\* The remote database with a clock of its own: a page is created or edited
\* at the time of the clock or at a later one, and a page can be archived, after
\* which no query returns it.  Nothing fails in the sync.
Clock == call.clock

InitChurn ==
    /\ rtState = Absent
    /\ pc = "idle"
    /\ schemaMapping = <<>>
    /\ queryParams = NoQuery
    /\ queryResult = NoResult
    /\ idx = 0
    /\ result = EmptyResult
    /\ nextState = Absent
    /\ hasMore = FALSE
    /\ tableExists = FALSE
    /\ tableCols = {}
    /\ tableTypes = {}
    /\ rows = [p \in PageIds |-> 0]
    /\ rowContent = [p \in PageIds |-> NoContent]
    /\ remoteProps = {1}
    /\ pages = [p \in PageIds |-> NoPage]
    /\ reconciled = FALSE
    /\ ddlIssued = 0
    /\ schemaSync = NoSchemaSync
    /\ outcomes = <<>>
    /\ flattenFailed = {}
    /\ prevEmptyW = 0
    /\ relRows = NoRows
    /\ call = [op |-> "remote", clock |-> 0]

\* A page is created, or an existing page is edited, and stamped.  What the
\* page holds plays no part here: every page holds the same.
WritePage(p, t) ==
    /\ t \in {Clock, Clock + 1}
    /\ t >= 1
    /\ t <= MaxClock
    /\ pages' = [pages EXCEPT ![p] = [last_edited_time |-> t, val |-> 1]]
    /\ call' = [call EXCEPT !.clock = t]
    /\ UNCHANGED <<rtState, pc, schemaMapping, queryParams, queryResult, idx,
                   result, nextState, hasMore, dbVars, remoteProps, reconciled,
                   ddlIssued, schemaSync, outcomes, flattenFailed, prevEmptyW, relRows>>

\* A page is archived (or deleted): the query returns it no longer.
ArchivePage(p) ==
    /\ pages[p].last_edited_time # 0
    /\ pages' = [pages EXCEPT ![p] = NoPage]
    /\ UNCHANGED <<rtState, pc, schemaMapping, queryParams, queryResult, idx,
                   result, nextState, hasMore, dbVars, remoteProps, reconciled,
                   ddlIssued, schemaSync, outcomes, flattenFailed, prevEmptyW, callVars>>

NextChurn ==
    \/ SyncStep
    \/ \E stmt \in OtherStatements : ExecuteRaw(stmt, 1)
    \/ \E p \in PageIds, t \in 1..MaxClock : WritePage(p, t)
    \/ \E p \in PageIds : ArchivePage(p)

\* The runtime keeps invoking the sync, and every await of an invocation
\* completes.
ChurnSpec == InitChurn /\ [][NextChurn]_vars /\ WF_vars(SyncStep)

\* ------------------------------------------------ extractPropertyValue alone
\* JavaScript values: undefined, null, strings (their characters), numbers
\* (the characters of their literal), booleans, arrays (their elements in
\* items) and objects (the names of their fields in v, in insertion order, and
\* the values of the fields in items).
Js(k, v, items) == [k |-> k, v |-> v, items |-> items]

JsUndefined  == Js("undefined", <<>>, <<>>)
JsNull       == Js("null", <<>>, <<>>)
JsString(cs) == Js("string", cs, <<>>)
JsNumber(cs) == Js("number", cs, <<>>)
JsFalse      == Js("boolean", <<"f","a","l","s","e">>, <<>>)
JsTrue       == Js("boolean", <<"t","r","u","e">>, <<>>)
JsArray(xs)  == Js("array", <<>>, xs)
JsObject(names, values) == Js("object", names, values)

Nullish(x) == x.k \in {"undefined", "null"}

\* x ?? y
Coalesce(x, y) == IF Nullish(x) THEN y ELSE x

\* Boolean(x)
Truthy(x) ==
    /\ ~Nullish(x)
    /\ x # JsFalse
    /\ x # JsString(<<>>)
    /\ x # JsNumber(<<"0">>)

\* x.name of an object, undefined when it has no such field; x?.name of
\* null and undefined
Get(x, name) ==
    IF x.k = "object" /\ \E i \in DOMAIN x.v : x.v[i] = name
    THEN x.items[CHOOSE i \in DOMAIN x.v : x.v[i] = name]
    ELSE JsUndefined

\* the characters of the field names and type names of the property values
FieldName(name) ==
    CASE name = "plain_text" -> <<"p","l","a","i","n","_","t","e","x","t">>
      [] name = "name"       -> <<"n","a","m","e">>
      [] name = "id"         -> <<"i","d">>
      [] name = "start"      -> <<"s","t","a","r","t">>
      [] name = "url"        -> <<"u","r","l">>
      [] name = "file"       -> <<"f","i","l","e">>
      [] name = "external"   -> <<"e","x","t","e","r","n","a","l">>
      [] name = "prefix"     -> <<"p","r","e","f","i","x">>
      [] name = "type"       -> <<"t","y","p","e">>
      [] name = "string"     -> <<"s","t","r","i","n","g">>
      [] name = "number"     -> <<"n","u","m","b","e","r">>
      [] name = "boolean"    -> <<"b","o","o","l","e","a","n">>
      [] name = "date"       -> <<"d","a","t","e">>
      [] name = "array"      -> <<"a","r","r","a","y">>

\* String(x), `${x}`
TextOf(x) ==
    IF x.k \in {"string", "number", "boolean"} THEN x.v
    ELSE IF x.k = "null" THEN <<"n","u","l","l">>
    ELSE <<"u","n","d","e","f","i","n","e","d">>

\* items.map((t) => t.plain_text).join(""): join writes nothing for null and
\* undefined
RECURSIVE JoinText(_, _)
JoinText(items, from) ==
    IF from > Len(items) THEN <<>>
    ELSE LET text == Get(items[from], "plain_text")
         IN  (IF Nullish(text) THEN <<>> ELSE TextOf(text))
                \o JoinText(items, from + 1)

\* JSON.stringify writes a string between quotes with the quote, the
\* backslash and the control characters escaped (of those the line feed is
\* among the characters here)
RECURSIVE Escaped(_)
Escaped(cs) ==
    IF cs = <<>> THEN <<>>
    ELSE (CASE Head(cs) = "\"" -> <<"\\", "\"">>
            [] Head(cs) = "\\" -> <<"\\", "\\">>
            [] Head(cs) = "\n" -> <<"\\", "n">>
            [] OTHER           -> <<Head(cs)>>)
            \o Escaped(Tail(cs))

\* JSON.stringify of a value that is neither an array nor an object; inside
\* an array undefined is written as null
StringifyScalar(x) ==
    IF x.k = "string" THEN <<"\"">> \o Escaped(x.v) \o <<"\"">>
    ELSE IF x.k \in {"number", "boolean"} THEN x.v
    ELSE <<"n","u","l","l">>

\* JSON.stringify of a value inside a value: the elements of an array
\* between brackets, the fields of an object between braces, those of them
\* left out whose value is undefined
RECURSIVE StringifyValue(_)
RECURSIVE StringifyItems(_, _)
RECURSIVE StringifyFields(_, _, _)
StringifyValue(x) ==
    IF x.k = "array" THEN <<"[">> \o StringifyItems(x.items, 1) \o <<"]">>
    ELSE IF x.k = "object"
    THEN <<"{">> \o StringifyFields(x, 1, TRUE) \o <<"}">>
    ELSE StringifyScalar(x)

StringifyItems(items, from) ==
    IF from > Len(items) THEN <<>>
    ELSE (IF from > 1 THEN <<",">> ELSE <<>>)
            \o StringifyValue(items[from])
            \o StringifyItems(items, from + 1)

StringifyFields(x, from, first) ==
    IF from > Len(x.v) THEN <<>>
    ELSE IF x.items[from].k = "undefined"
    THEN StringifyFields(x, from + 1, first)
    ELSE (IF first THEN <<>> ELSE <<",">>)
            \o <<"\"">> \o Escaped(FieldName(x.v[from])) \o <<"\"", ":">>
            \o StringifyValue(x.items[from])
            \o StringifyFields(x, from + 1, FALSE)

\* JSON.stringify(x): undefined for undefined, text for anything else
Stringify(x) ==
    IF x.k = "undefined" THEN JsUndefined ELSE JsString(StringifyValue(x))

\* the objects a property value holds under the name of its kind
RichText(text)           == JsObject(<<"plain_text">>, <<text>>)
DateObject(start)        == JsObject(<<"start">>, <<JsString(start)>>)
NamedObject(name)        == JsObject(<<"name">>, <<JsString(name)>>)
UserObject(id)           == JsObject(<<"id">>, <<JsString(id)>>)
UrlObject(url)           == JsObject(<<"url">>, <<url>>)
FileObject(file, ext)    == JsObject(<<"file", "external">>, <<file, ext>>)
UniqueId(prefix, number) == JsObject(<<"prefix", "number">>, <<prefix, number>>)
Formula(str, num, bool, date) ==
    JsObject(<<"string", "number", "boolean", "date">>, <<str, num, bool, date>>)
Rollup(type, str, num, bool, date, array) ==
    JsObject(<<"type", "string", "number", "boolean", "date", "array">>,
             <<JsString(FieldName(type)), str, num, bool, date, array>>)

\* a property value of a page: its kind and what it holds under that name
Property(type, payload) == [type |-> type, payload |-> payload]

\* FormulaValue that prefers the number to the string
FormulaValue_NumberFirst(formula) ==
    IF ~Truthy(formula) THEN JsNull
    ELSE Coalesce(Get(formula, "number"),
           Coalesce(Get(formula, "string"),
             Coalesce(Get(formula, "boolean"),
               Coalesce(Get(formula, "date"), JsNull))))

\* case "formula": formula.string ?? formula.number ?? formula.boolean ??
\* formula.date ?? null
FormulaValue(formula) ==
    IF ~Truthy(formula) THEN JsNull
    ELSE Coalesce(Get(formula, "string"),
           Coalesce(Get(formula, "number"),
             Coalesce(Get(formula, "boolean"),
               Coalesce(Get(formula, "date"), JsNull))))

\* case "rollup": the array serialized, else rollup.number ?? rollup.date ??
\* null
RollupValue(rollup) ==
    IF ~Truthy(rollup) THEN JsNull
    ELSE IF Get(rollup, "type") = JsString(FieldName("array"))
    THEN Stringify(Get(rollup, "array"))
    ELSE Coalesce(Get(rollup, "number"), Coalesce(Get(rollup, "date"), JsNull))

\* files.map((f) => f.file?.url ?? f.external?.url).filter(Boolean)
FileUrls(files) ==
    SelectSeq([i \in DOMAIN files |->
                  Coalesce(Get(Get(files[i], "file"), "url"),
                           Get(Get(files[i], "external"), "url"))],
              Truthy)

\* xs.map((x) => x[name])
MapField(xs, name) == JsArray([i \in DOMAIN xs |-> Get(xs[i], name)])

\* extractPropertyValue of a property value of a page
extractPropertyValue(property) ==
    LET type == property.type
        held == property.payload
    IN  CASE type \in {"title", "rich_text"} ->
               IF Nullish(held) THEN JsString(<<>>)
               ELSE JsString(JoinText(held.items, 1))
          [] type \in {"number", "url", "email", "phone_number",
                       "created_time", "last_edited_time"} ->
               Coalesce(held, JsNull)
          [] type \in {"select", "status"} -> Coalesce(Get(held, "name"), JsNull)
          [] type = "date" -> Coalesce(Get(held, "start"), JsNull)
          [] type \in {"created_by", "last_edited_by"} ->
               Coalesce(Get(held, "id"), JsNull)
          [] type = "multi_select" ->
               IF Nullish(held) THEN JsArray(<<>>)
               ELSE MapField(held.items, "name")
          [] type \in {"relation", "people"} ->
               IF Nullish(held) THEN JsArray(<<>>)
               ELSE MapField(held.items, "id")
          [] type = "checkbox" -> Coalesce(held, JsFalse)
          [] type = "formula" -> FormulaValue(held)
          [] type = "rollup" -> RollupValue(held)
          [] type = "files" ->
               IF Nullish(held) THEN JsArray(<<>>)
               ELSE JsArray(FileUrls(held.items))
          [] type = "unique_id" ->
               IF ~Truthy(held) THEN JsNull
               ELSE IF Truthy(Get(held, "prefix"))
               THEN JsString(TextOf(Get(held, "prefix")) \o <<"-">>
                                \o TextOf(Get(held, "number")))
               ELSE JsString(TextOf(Get(held, "number")))
          [] OTHER -> JsNull

\* The property values the extraction is given: for every kind, unset and
\* set; for the computed kinds, every combination of their sub-results; for
\* an array rollup, arrays of scalars, of the objects the remote puts there,
\* of nested arrays and of a string with characters that are escaped.
TextX == JsString(<<"x">>)
TextY == JsString(<<"y">>)
Seven == JsNumber(<<"7">>)
Zero  == JsNumber(<<"0">>)
Start == DateObject(<<"2","0","2","4","-","0","1","-","0","1">>)
Quoted == JsString(<<"a", "\"", "\\", "\n">>)
NumberItem ==
    JsObject(<<"type", "number">>, <<JsString(FieldName("number")), Seven>>)

RollupArrays ==
    { JsArray(<<>>),
      JsArray(<<Seven, TextX, JsNull>>),
      JsArray(<<NumberItem, NumberItem>>),
      JsArray(<<Quoted, JsArray(<<Seven>>), JsArray(<<>>), Start,
                JsUndefined, JsObject(<<"date">>, <<JsUndefined>>)>>) }

Payloads(type) ==
    CASE type \in {"title", "rich_text"} ->
           {JsUndefined, JsArray(<<>>), JsArray(<<RichText(TextX)>>),
            JsArray(<<RichText(TextX), RichText(TextY)>>)}
      [] type = "number" -> {JsNull, Zero, Seven}
      [] type \in {"url", "email", "phone_number", "created_time",
                   "last_edited_time"} -> {JsNull, TextX}
      [] type \in {"select", "status"} -> {JsNull, NamedObject(<<"x">>)}
      [] type = "date" -> {JsNull, Start}
      [] type \in {"created_by", "last_edited_by"} ->
           {JsNull, UserObject(<<"u">>)}
      [] type = "multi_select" ->
           {JsUndefined, JsArray(<<>>),
            JsArray(<<NamedObject(<<"x">>), NamedObject(<<"y">>)>>)}
      [] type \in {"relation", "people"} ->
           {JsUndefined, JsArray(<<>>),
            JsArray(<<UserObject(<<"x">>), UserObject(<<"y">>)>>)}
      [] type = "checkbox" -> {JsUndefined, JsFalse, JsTrue}
      [] type = "files" ->
           {JsUndefined, JsArray(<<>>),
            JsArray(<<FileObject(UrlObject(TextX), JsUndefined),
                      FileObject(JsUndefined, UrlObject(TextY)),
                      FileObject(UrlObject(TextX), UrlObject(TextY)),
                      FileObject(JsUndefined, JsUndefined)>>)}
      [] type = "unique_id" ->
           {JsNull, UniqueId(JsNull, Seven), UniqueId(TextX, Seven),
            UniqueId(JsString(<<>>), Zero)}
      [] type = "formula" ->
           {JsUndefined}
             \cup { Formula(s, n, b, d) :
                      s \in {JsNull, JsUndefined, TextX, JsString(<<>>)},
                      n \in {JsNull, Zero},
                      b \in {JsNull, JsFalse},
                      d \in {JsNull, Start} }
      [] type = "rollup" ->
           {JsUndefined}
             \cup { Rollup(t, s, n, b, d, JsUndefined) :
                      t \in {"number", "date", "string", "boolean"},
                      s \in {JsUndefined, TextX},
                      n \in {JsUndefined, JsNull, Seven},
                      b \in {JsUndefined, JsTrue},
                      d \in {JsUndefined, JsNull, Start} }
             \cup { Rollup("array", JsUndefined, JsUndefined, JsUndefined,
                           JsUndefined, a) : a \in RollupArrays }
      [] OTHER -> {JsUndefined, TextX}

PropertyObjects ==
    UNION { { Property(type, held) : held \in Payloads(type) } : type \in Kinds }

\* properties[column] = value
Put(map, column, value) ==
    [c \in DOMAIN map \cup {column} |-> IF c = column THEN value ELSE map[c]]

\* {}
EmptyMap == [c \in {} |-> JsNull]

\* The properties of a page of a database that has the properties props, by
\* name: any of them, each holding a value of the kind the database declares.
RECURSIVE PageProperties(_)
PageProperties(props) ==
    IF props = {} THEN {EmptyMap}
    ELSE LET i    == CHOOSE j \in props : \A k \in props : j <= k
             rest == PageProperties(props \ {i})
         IN  rest \cup { Put(held, PropDefs[i].name,
                             Property(PropDefs[i].type, payload)) :
                           held \in rest,
                           payload \in Payloads(PropDefs[i].type) }

\* runSync, lines 86-93: for every entry of the mapping, in its order, the
\* column of the entry is set to the extracted value when the page has the
\* property.  properties is the map so far, from column names to values.
RECURSIVE ExtractProperties(_, _, _, _)
ExtractProperties(mapping, held, properties, from) ==
    IF from > Len(mapping) THEN properties
    ELSE LET name == mapping[from].propName
             next == IF name \in DOMAIN held
                     THEN Put(properties, mapping[from].columnName,
                              extractPropertyValue(held[name]))
                     ELSE properties
         IN  ExtractProperties(mapping, held, next, from + 1)

\* extractPropertyValue is given a property value, or the loop of runSync a
\* page and the mapping of its database.
InitExtract ==
    /\ NoSync
    /\ tableExists = FALSE
    /\ tableCols = {}
    /\ tableTypes = {}
    /\ relRows = NoRows
    /\ \/ /\ remoteProps = {1}
          /\ \E property \in PropertyObjects :
                call = [op |-> "property", property |-> property]
       \/ /\ remoteProps \in PropertySets
          /\ \E held \in PageProperties(remoteProps) :
                call = [op |-> "page", held |-> held]

CallExtractPropertyValue ==
    /\ call.op = "property"
    /\ call' = [op |-> "extractPropertyValue",
                property |-> call.property,
                output |-> extractPropertyValue(call.property)]
    /\ UNCHANGED <<syncVars, tableExists, tableCols, tableTypes, remoteProps,
                   relRows>>

CallExtractProperties ==
    /\ call.op = "page"
    /\ call' = [op |-> "properties",
                held |-> call.held,
                mapping |-> fetchNotionSchema(remoteProps),
                properties |-> ExtractProperties(fetchNotionSchema(remoteProps),
                                                 call.held, EmptyMap, 1)]
    /\ UNCHANGED <<syncVars, tableExists, tableCols, tableTypes, remoteProps,
                   relRows>>

NextExtract ==
    \/ CallExtractPropertyValue
    \/ CallExtractProperties

ExtractSpec == InitExtract /\ [][NextExtract]_vars

\* ------------------------------------- configuration and the cached connection
\* process.env as the worker finds it.  A variable is not set (undefined) or
\* holds a string.
Undefined == <<"undefined">>

HexChars ==
    {"0","1","2","3","4","5","6","7","8","9",
     "a","b","c","d","e","f","A","B","C","D","E","F"}

\* /^[a-f0-9-]{32,36}$/i
MatchesDatabaseId(s) ==
    /\ Len(s) >= 32
    /\ Len(s) <= 36
    /\ \A i \in DOMAIN s : s[i] \in HexChars \cup {"-"}

StartsWith(s, prefix) ==
    /\ Len(s) >= Len(prefix)
    /\ SubSeq(s, 1, Len(prefix)) = prefix

Postgres == <<"p","o","s","t","g","r","e","s">>

SomeToken    == <<"s","e","c","r","e","t">>
SomeDatabase == <<"1","2","3","4","5","6","7","8","-","9","0","a","b","-","c","d","e","f","-","1","2","3","4","-","5","6","7","8","9","0","A","B","C","D","E","F">>
SomeUrl      == <<"p","o","s","t","g","r","e","s",":","/","/","h","/","d","b">>
OtherUrl     == <<"m","y","s","q","l",":","/","/","h","/","d","b">>
NotAnId      == <<"m","y","-","d","a","t","a","b","a","s","e">>

LogLevels == {<<"DEBUG">>, <<"INFO">>, <<"WARN">>, <<"ERROR">>}

ProcessEnvs ==
    [NOTION_API_TOKEN   : {Undefined, <<>>, SomeToken},
     NOTION_DATABASE_ID : {Undefined, <<>>, NotAnId, SomeDatabase},
     NEON_DATABASE_URL  : {Undefined, <<>>, OtherUrl, SomeUrl},
     LOG_LEVEL          : {Undefined, <<"DEBUG">>, <<"TRACE">>}]

Issue(path, message) == [path |-> path, message |-> message]

\* the issues of one field of envSchema: a value that is not a string fails
\* the type; a string is put to every check of the field
TokenIssues(v) ==
    IF v = Undefined
    THEN <<Issue("NOTION_API_TOKEN", "NOTION_API_TOKEN must be a string")>>
    ELSE IF Len(v) < 1
    THEN <<Issue("NOTION_API_TOKEN", "NOTION_API_TOKEN is required")>>
    ELSE <<>>

DatabaseIdIssues(v) ==
    IF v = Undefined
    THEN <<Issue("NOTION_DATABASE_ID", "NOTION_DATABASE_ID must be a string")>>
    ELSE (IF Len(v) < 1
          THEN <<Issue("NOTION_DATABASE_ID", "NOTION_DATABASE_ID is required")>>
          ELSE <<>>)
         \o (IF ~MatchesDatabaseId(v)
             THEN <<Issue("NOTION_DATABASE_ID",
                          "NOTION_DATABASE_ID must be a valid UUID format")>>
             ELSE <<>>)

DatabaseUrlIssues(v) ==
    IF v = Undefined
    THEN <<Issue("NEON_DATABASE_URL", "NEON_DATABASE_URL must be a string")>>
    ELSE (IF Len(v) < 1
          THEN <<Issue("NEON_DATABASE_URL", "NEON_DATABASE_URL is required")>>
          ELSE <<>>)
         \o (IF ~StartsWith(v, Postgres)
             THEN <<Issue("NEON_DATABASE_URL",
                          "NEON_DATABASE_URL must be a postgres:// URL")>>
             ELSE <<>>)

LogLevelIssues(v) ==
    IF v = Undefined \/ v \in LogLevels
    THEN <<>>
    ELSE <<Issue("LOG_LEVEL",
                 "Invalid option: expected one of \"DEBUG\"|\"INFO\"|\"WARN\"|\"ERROR\"")>>

\* parseEnv: envSchema.safeParse of the four variables; on failure the error
\* thrown lists every issue, on success the data (LOG_LEVEL defaulted)
parseEnv(processEnv) ==
    LET issues == TokenIssues(processEnv.NOTION_API_TOKEN)
                    \o DatabaseIdIssues(processEnv.NOTION_DATABASE_ID)
                    \o DatabaseUrlIssues(processEnv.NEON_DATABASE_URL)
                    \o LogLevelIssues(processEnv.LOG_LEVEL)
    IN  [success |-> issues = <<>>,
         issues  |-> issues,
         data    |-> IF processEnv.LOG_LEVEL = Undefined
                     THEN [processEnv EXCEPT !.LOG_LEVEL = <<"INFO">>]
                     ELSE processEnv]

\* cachedEnv = null
NoEnv == [NOTION_API_TOKEN |-> Undefined, NOTION_DATABASE_ID |-> Undefined,
          NEON_DATABASE_URL |-> Undefined, LOG_LEVEL |-> Undefined]

\* The get trap of env, validating on every read
EnvAccess_Revalidates(cachedEnv, processEnv) ==
    LET r == parseEnv(processEnv)
    IN  [threw     |-> ~r.success,
         issues    |-> r.issues,
         validated |-> TRUE,
         cachedEnv |-> IF r.success THEN r.data ELSE cachedEnv]

\* The get trap of env: a read of any variable validates all of them when
\* nothing is cached, and caches the data when the validation succeeds.
EnvAccess(cachedEnv, processEnv) ==
    IF cachedEnv # NoEnv
    THEN [threw |-> FALSE, issues |-> <<>>, validated |-> FALSE,
          cachedEnv |-> cachedEnv]
    ELSE LET r == parseEnv(processEnv)
         IN  [threw     |-> ~r.success,
              issues    |-> r.issues,
              validated |-> TRUE,
              cachedEnv |-> IF r.success THEN r.data ELSE NoEnv]

\* validateEnv(): the same validation and cache as the get trap, the whole
\* of the cached data returned; no handle is made.
validateEnv(cachedEnv, processEnv) ==
    IF cachedEnv # NoEnv
    THEN [threw |-> FALSE, issues |-> <<>>, validated |-> FALSE,
          cachedEnv |-> cachedEnv, returned |-> cachedEnv]
    ELSE LET r == parseEnv(processEnv)
         IN  [threw     |-> ~r.success,
              issues    |-> r.issues,
              validated |-> TRUE,
              cachedEnv |-> IF r.success THEN r.data ELSE NoEnv,
              returned  |-> IF r.success THEN r.data ELSE NoEnv]

\* getSqlClient that connects on every call
getSqlClient_NoCache(sqlClient, created, cachedEnv, processEnv) ==
    LET a == EnvAccess(cachedEnv, processEnv)
    IN  [threw     |-> a.threw,
         issues    |-> a.issues,
         validated |-> a.validated,
         cachedEnv |-> a.cachedEnv,
         sqlClient |-> IF a.threw THEN sqlClient ELSE created + 1,
         created   |-> IF a.threw THEN created ELSE created + 1]

\* getSqlClient: the handle held, or neon(env.NEON_DATABASE_URL), kept.
\* Handles are numbered in the order they are created; 0 is null.
getSqlClient(sqlClient, created, cachedEnv, processEnv) ==
    IF sqlClient # 0
    THEN [threw |-> FALSE, issues |-> <<>>, validated |-> FALSE,
          cachedEnv |-> cachedEnv, sqlClient |-> sqlClient,
          created |-> created]
    ELSE LET a == EnvAccess(cachedEnv, processEnv)
         IN  [threw     |-> a.threw,
              issues    |-> a.issues,
              validated |-> a.validated,
              cachedEnv |-> a.cachedEnv,
              sqlClient |-> IF a.threw THEN 0 ELSE created + 1,
              created   |-> IF a.threw THEN created ELSE created + 1]

\* The process of the worker: process.env, the two module-level caches, and
\* what the last call did; the remote database holds one page, Postgres no
\* table.  In the history, failed tells that the call met an error, threw
\* that the error left it, output is what the last execute of the tool
\* resolved to and running is the execute started last.
InitConfig ==
    /\ rtState = Absent
    /\ pc = "idle"
    /\ schemaMapping = <<>>
    /\ queryParams = NoQuery
    /\ queryResult = NoResult
    /\ idx = 0
    /\ result = EmptyResult
    /\ nextState = Absent
    /\ hasMore = FALSE
    /\ rows = [p \in PageIds |-> 0]
    /\ rowContent = [p \in PageIds |-> NoContent]
    /\ pages = [p \in PageIds |->
                  IF p = 1 THEN [last_edited_time |-> 1, val |-> 1] ELSE NoPage]
    /\ reconciled = FALSE
    /\ ddlIssued = 0
    /\ schemaSync = NoSchemaSync
    /\ outcomes = <<>>
    /\ flattenFailed = {}
    /\ prevEmptyW = 0
    /\ remoteProps = {1}
    /\ tableExists = FALSE
    /\ tableCols = {}
    /\ tableTypes = {}
    /\ relRows = NoRows
    /\ \E processEnv \in ProcessEnvs :
          call = [op |-> "start", processEnv |-> processEnv,
                  cachedEnv |-> NoEnv, sqlClient |-> 0, created |-> 0,
                  calls |-> 0, sinceReset |-> 0, handed |-> {},
                  before |-> 0, cachedBefore |-> NoEnv, returned |-> 0,
                  failed |-> FALSE, threw |-> FALSE,
                  issues |-> <<>>, validated |-> 0, reached |-> FALSE,
                  running |-> "none", output |-> NoOutput]

\* a call of getSqlClient()
CallGetSqlClient ==
    LET r == getSqlClient(call.sqlClient, call.created, call.cachedEnv,
                          call.processEnv)
    IN  /\ call.calls < MaxCalls
        /\ call' = [call EXCEPT
                      !.op = "getSqlClient",
                      !.calls = @ + 1,
                      !.before = call.sqlClient,
                      !.cachedBefore = call.cachedEnv,
                      !.cachedEnv = r.cachedEnv,
                      !.sqlClient = r.sqlClient,
                      !.created = r.created,
                      !.sinceReset = @ + (r.created - call.created),
                      !.handed = IF r.threw THEN @ ELSE @ \cup {r.sqlClient},
                      !.returned = IF r.threw THEN 0 ELSE r.sqlClient,
                      !.failed = r.threw,
                      !.threw = r.threw,
                      !.issues = r.issues,
                      !.validated = IF r.validated THEN 1 ELSE 0,
                      !.reached = FALSE]
        /\ UNCHANGED <<syncVars, tableExists, tableCols, tableTypes,
                       remoteProps, relRows>>

\* a call of validateEnv()
CallValidateEnv ==
    LET r == validateEnv(call.cachedEnv, call.processEnv)
    IN  /\ call.calls < MaxCalls
        /\ call' = [call EXCEPT
                      !.op = "validateEnv",
                      !.calls = @ + 1,
                      !.before = call.sqlClient,
                      !.cachedBefore = call.cachedEnv,
                      !.cachedEnv = r.cachedEnv,
                      !.returned = 0,
                      !.failed = r.threw,
                      !.threw = r.threw,
                      !.issues = r.issues,
                      !.validated = IF r.validated THEN 1 ELSE 0,
                      !.reached = FALSE]
        /\ UNCHANGED <<syncVars, tableExists, tableCols, tableTypes,
                       remoteProps, relRows>>

\* a call of resetSqlClient()
CallResetSqlClient ==
    /\ call.calls < MaxCalls
    /\ call' = [call EXCEPT
                  !.op = "resetSqlClient",
                  !.calls = @ + 1,
                  !.before = call.sqlClient,
                  !.cachedBefore = call.cachedEnv,
                  !.sqlClient = 0,
                  !.sinceReset = 0,
                  !.handed = {},
                  !.returned = 0,
                  !.failed = FALSE,
                  !.threw = FALSE,
                  !.issues = <<>>,
                  !.validated = 0,
                  !.reached = FALSE]
    /\ UNCHANGED <<syncVars, tableExists, tableCols, tableTypes,
                   remoteProps, relRows>>

Executes == {"notionPostgresSync", "syncSchema tool"}

\* execute, of the sync and of the syncSchema tool, up to its first await:
\* getSqlClient(), then a read of env.NOTION_DATABASE_ID, then runSync or
\* fetchNotionSchema is called and awaits the retrieve call.  What the
\* first two throw is caught: the catch of the sync rethrows it, the catch
\* of the tool returns the failure string.  The runtime is followed through
\* one execute at a time.
CallExecute(op) ==
    LET c == getSqlClient(call.sqlClient, call.created, call.cachedEnv,
                          call.processEnv)
        a == EnvAccess(c.cachedEnv, call.processEnv)
        failed == c.threw \/ a.threw
    IN  /\ pc = "idle"
        /\ call.calls < MaxCalls
        /\ call' = [call EXCEPT
                      !.op = op,
                      !.calls = @ + 1,
                      !.before = call.sqlClient,
                      !.cachedBefore = call.cachedEnv,
                      !.cachedEnv = IF c.threw THEN c.cachedEnv ELSE a.cachedEnv,
                      !.sqlClient = c.sqlClient,
                      !.created = c.created,
                      !.sinceReset = @ + (c.created - call.created),
                      !.handed = IF c.threw THEN @ ELSE @ \cup {c.sqlClient},
                      !.returned = IF c.threw THEN 0 ELSE c.sqlClient,
                      !.failed = failed,
                      !.threw = failed /\ op = "notionPostgresSync",
                      !.issues = IF c.threw THEN c.issues ELSE a.issues,
                      !.validated = (IF c.validated THEN 1 ELSE 0)
                                      + (IF ~c.threw /\ a.validated THEN 1 ELSE 0),
                      !.reached = ~failed,
                      !.running = op,
                      !.output = IF failed /\ op = "syncSchema tool"
                                 THEN syncSchemaTool(FALSE, TRUE,
                                                     ResultOf(Called), 0)
                                 ELSE NoOutput]
        /\ pc' = IF failed THEN "idle" ELSE "fetchSchema"
        /\ ResetLocals
        /\ UNCHANGED <<rtState, dbVars, remoteVars, prevEmptyW, relRows>>

\* The tool's execute goes on: await fetchNotionSchema(notion, databaseId),
\* then syncSchema is called.
ToolFetchNotionSchema ==
    /\ call.running = "syncSchema tool"
    /\ pc = "fetchSchema"
    /\ schemaMapping' = fetchNotionSchema(remoteProps)
    /\ schemaSync' = Called
    /\ pc' = "syncSchema"
    /\ UNCHANGED <<rtState, queryParams, queryResult, idx, result, nextState,
                   hasMore, dbVars, remoteVars, reconciled, ddlIssued,
                   outcomes, flattenFailed, prevEmptyW, callVars>>

\* await syncSchema(sql, tableName, schemaMapping) in the tool, one await of
\* it at a time; when it returns, execute returns its summary.
ToolSyncSchema ==
    /\ call.running = "syncSchema tool"
    /\ pc = "syncSchema"
    /\ AwaitSyncSchema(schemaMapping, FALSE, 1)
    /\ ddlIssued' = IF schemaSync.stage = "executeRaw" THEN ddlIssued + 1
                    ELSE ddlIssued
    /\ pc' = IF InFlight(schemaSync') THEN pc ELSE "idle"
    /\ call' = IF InFlight(schemaSync') THEN call
               ELSE [call EXCEPT
                       !.output = syncSchemaTool(TRUE, TRUE,
                                     ResultOf(schemaSync'), Len(schemaMapping))]
    /\ UNCHANGED <<rtState, schemaMapping, queryParams, queryResult, idx,
                   result, nextState, hasMore, rows, rowContent, remoteVars,
                   reconciled, outcomes, flattenFailed, prevEmptyW>>

\* The secrets of the deployment are changed.
SetEnv(processEnv) ==
    /\ call.calls < MaxCalls
    /\ processEnv # call.processEnv
    /\ call' = [call EXCEPT
                  !.op = "setEnv",
                  !.calls = @ + 1,
                  !.processEnv = processEnv,
                  !.before = call.sqlClient,
                  !.cachedBefore = call.cachedEnv,
                  !.returned = 0,
                  !.failed = FALSE,
                  !.threw = FALSE,
                  !.issues = <<>>,
                  !.validated = 0,
                  !.reached = FALSE]
    /\ UNCHANGED <<syncVars, tableExists, tableCols, tableTypes,
                   remoteProps, relRows>>

\* process.env is looked at when a call is made
EnvChanges == IF call.calls < MaxCalls THEN ProcessEnvs ELSE {}

\* the sync's execute goes on: runSync, await by await, nothing failing
SyncRuns == call.running = "notionPostgresSync"

NextConfig ==
    \/ CallGetSqlClient
    \/ CallValidateEnv
    \/ CallResetSqlClient
    \/ \E op \in Executes : CallExecute(op)
    \/ SyncRuns /\ FetchSchema(TRUE)
    \/ SyncRuns /\ SyncSchemaStep(FALSE)
    \/ SyncRuns /\ QueryRemote(TRUE)
    \/ SyncRuns /\ ProcessPage("ok")
    \/ SyncRuns /\ UpsertPage(FALSE)
    \/ SyncRuns /\ FinishBatch
    \/ SyncRuns /\ Return
    \/ ToolFetchNotionSchema
    \/ ToolSyncSchema
    \/ \E processEnv \in EnvChanges : SetEnv(processEnv)

ConfigSpec == InitConfig /\ [][NextConfig]_vars

\* ------------------------------------------------------- getTableName alone
\* The database ids it is given: strings of 32 characters that envSchema
\* accepts or not, "0" everywhere but in their first or in their last
\* MaxVary characters, and a dashed UUID.
IdChars == {"a", "B", "-", "_"}

Zeros(n) == [i \in 1..n |-> "0"]

DatabaseIds ==
    { t \o Zeros(32 - MaxVary) : t \in [1..MaxVary -> IdChars] }
        \cup { Zeros(32 - MaxVary) \o t : t \in [1..MaxVary -> IdChars] }
        \cup {SomeDatabase}

\* getTableName: "notion_" and the first 20 characters of the identifier
\* with every "-" replaced by "_"
getTableName(databaseId) ==
    LET replaced == [i \in DOMAIN databaseId |->
                        IF databaseId[i] = "-" THEN "_" ELSE databaseId[i]]
        sanitized == SubSeq(replaced, 1,
                            IF Len(replaced) < 20 THEN Len(replaced) ELSE 20)
    IN  <<"n","o","t","i","o","n","_">> \o sanitized

InitNames ==
    /\ NoSync
    /\ remoteProps = {1}
    /\ tableExists = FALSE
    /\ tableCols = {}
    /\ tableTypes = {}
    /\ relRows = NoRows
    /\ \E a, b \in DatabaseIds : call = [op |-> "ids", a |-> a, b |-> b]

\* the table names of two database ids, as runSync (part_004:34) and as the
\* syncSchema tool (index.ts:100) compute them
CallGetTableName ==
    /\ call.op = "ids"
    /\ call' = [op |-> "getTableName",
                a |-> call.a,
                b |-> call.b,
                bySync |-> getTableName(call.a),
                byTool |-> getTableName(call.a),
                other  |-> getTableName(call.b)]
    /\ UNCHANGED <<syncVars, tableExists, tableCols, tableTypes, remoteProps,
                   relRows>>

NameSpec == InitNames /\ [][CallGetTableName]_vars

\* ------------------------------------------------------------------- claims
Results == queryResult.results
QuerySent == pc \in {"process", "return"}
CountOf(seq, x) == Cardinality({i \in DOMAIN seq : seq[i] = x})

\* C1: when the remote reports has_more with a next cursor, the returned
\* nextState carries exactly that cursor and no watermark.  (The returned
\* state is { ...state, cursor }: a carried watermark stays next to the new
\* cursor.)
C1_ContinuationDropsWatermark ==
    (pc = "return" /\ queryResult.has_more /\ queryResult.next_cursor # 0)
        => /\ nextState.present
           /\ nextState.cursor = queryResult.next_cursor
           /\ nextState.lastSyncTime = 0

\* C2: when the remote returns N >= 1 records, each with its edit time, sorted
\* ascending, and has_more = false, nextState has lastSyncTime equal to the
\* edit time of the last record and no cursor, whichever records failed.
C2_WatermarkIsLastEditTime ==
    (/\ pc = "return"
     /\ ~queryResult.has_more
     /\ Len(Results) >= 1
     /\ \A i \in DOMAIN Results : Results[i].last_edited_time # 0)
        => /\ nextState.present
           /\ nextState.lastSyncTime = Results[Len(Results)].last_edited_time
           /\ nextState.cursor = 0

C2_Witness ==
    /\ pc = "return"
    /\ ~queryResult.has_more
    /\ Len(Results) = 2
    /\ Results[1].last_edited_time # 0
    /\ Results[1].last_edited_time < Results[2].last_edited_time
    /\ outcomes = <<"upserted", "failed">>
    /\ nextState = SyncState(0, Results[2].last_edited_time)

\* C3 (as stated): after an invocation that carried watermark W and no cursor
\* and fetched nothing, the next invocation filters on W or a later watermark
\* and does not reconcile the schema again.
C3_WatermarkSurvivesEmptyCycle ==
    (prevEmptyW # 0 /\ QuerySent)
        => /\ queryParams.after >= prevEmptyW
           /\ ~reconciled

\* C5: a failing record does not end the batch: every result with properties
\* was either upserted, and then has its row, or failed; processedCount and
\* errorCount count the two kinds, with one message per failure.
C5_ErrorIsolation ==
    pc = "return"
        => /\ Len(outcomes) = Len(Results)
           /\ \A i \in DOMAIN Results :
                 /\ Results[i].full => outcomes[i] \in {"upserted", "failed"}
                 /\ outcomes[i] = "upserted" => rows[Results[i].id] # 0
           /\ result.processedCount = CountOf(outcomes, "upserted")
           /\ result.errorCount = CountOf(outcomes, "failed")
           /\ Len(result.errors) = result.errorCount
           /\ \A i \in DOMAIN Results :
                 outcomes[i] = "failed" => Results[i].id \in Range(result.errors)

C5_Witness ==
    /\ pc = "return"
    /\ outcomes = <<"failed", "upserted">>
    /\ result.processedCount = 1
    /\ result.errorCount = 1
    /\ rows[Results[2].id] # 0
    /\ rows[Results[1].id] = 0

\* C6 (as stated): hasMore is true exactly when nextState carries a cursor,
\* for every response of the remote.
C6_HasMoreAgreesWithCursor ==
    pc = "return" => (hasMore <=> (nextState.present /\ nextState.cursor # 0))

\* C7: the query uses the carried cursor and no time filter; else the carried
\* watermark as the filter and no cursor; else neither; it always sorts by
\* edit time ascending.
C7_OneResumeSignal ==
    QuerySent
        => /\ queryParams.sort = "last_edited_time ascending"
           /\ ~(queryParams.start_cursor # 0 /\ queryParams.after # 0)
           /\ IF rtState.present /\ rtState.cursor # 0
              THEN /\ queryParams.start_cursor = rtState.cursor
                   /\ queryParams.after = 0
              ELSE IF rtState.present /\ rtState.lastSyncTime # 0
              THEN /\ queryParams.start_cursor = 0
                   /\ queryParams.after = rtState.lastSyncTime
              ELSE /\ queryParams.start_cursor = 0
                   /\ queryParams.after = 0

C7_Witness ==
    /\ pc = "process"
    /\ rtState.present
    /\ rtState.cursor # 0
    /\ rtState.lastSyncTime # 0
    /\ queryParams.start_cursor = rtState.cursor
    /\ queryParams.after = 0

\* C8 (as stated): whenever runSync is about to upsert a record, the table
\* exists and has the three special columns and every column of the mapping
\* fetched in this invocation.
C8_UpsertColumnsExist ==
    pc = "upsert"
        => /\ tableExists
           /\ Range(AllColumns(ColumnNames(schemaMapping))) \subseteq tableCols

\* C9: syncSchema has returned before the query is sent and before any record
\* is handled exactly in the invocations that carry no state; an invocation
\* that carries a state issues no DDL statement.
C9_SchemaSyncOnlyWithoutState ==
    /\ (pc \in {"query", "process", "upsert", "return"} /\ ~rtState.present)
          => reconciled
    /\ (pc # "idle" /\ rtState.present) => (~reconciled /\ ddlIssued = 0)
    /\ (queryParams # NoQuery \/ outcomes # <<>>)
          => (reconciled <=> ~rtState.present)

C9_Witness ==
    /\ pc = "return"
    /\ ~rtState.present
    /\ reconciled
    /\ ddlIssued = 1
    /\ "upserted" \in Range(outcomes)

\* C10: once the schema fetch, the reconciliation or the query has failed, the
\* invocation has upserted nothing and produced no nextState, and it ends
\* with the runtime holding the state it held before and the rows untouched.
C10_FatalErrorsAbortInvocation ==
    [][pc = "threw"
          => /\ outcomes = <<>>
             /\ result = EmptyResult
             /\ nextState = Absent
             /\ pc' \in {"threw", "idle"}
             /\ rtState' = rtState
             /\ rows' = rows
             /\ rowContent' = rowContent]_vars

C10_Witness ==
    /\ pc = "threw"
    /\ rtState.present
    /\ rtState.lastSyncTime # 0
    /\ queryParams # NoQuery

\* C4 (as stated): with invocations kept running, each fed the previous
\* nextState, and nothing failing, whatever content a page is given remotely is
\* eventually in its row, unless the page has been edited again by then.
C4_NoEditMissed ==
    \A p \in PageIds, v \in Vals :
        (pages[p].last_edited_time # 0 /\ pages[p].val = v)
            ~> (rows[p] = v \/ pages[p].val # v)

\* C11: a record whose content conversion failed is upserted all the same,
\* with empty content: the failure leads to the upsert, and the record the
\* database then stores is counted in processedCount, has its row with
\* empty content and adds nothing to errorCount or to the error messages.
C11_FlattenFailureIsNotAnError ==
    /\ [](/\ \A i \in flattenFailed \cap DOMAIN outcomes :
                 /\ outcomes[i] \in {"upserted", "failed"}
                 /\ outcomes[i] = "upserted"
                       => /\ rows[Results[i].id] # 0
                          /\ rowContent[Results[i].id] = ""
                          /\ Results[i].id \notin Range(result.errors)
           /\ pc \in {"process", "upsert", "return"}
                 => /\ result.processedCount = CountOf(outcomes, "upserted")
                    /\ result.errorCount = CountOf(outcomes, "failed")
                    /\ Len(result.errors) = result.errorCount)
    /\ [][flattenFailed' # flattenFailed /\ flattenFailed' # {}
             => /\ pc' = "upsert"
                /\ outcomes' = outcomes
                /\ result' = result]_vars

C11_Witness ==
    /\ pc = "return"
    /\ flattenFailed = {1}
    /\ outcomes = <<"upserted", "failed">>
    /\ rowContent[Results[1].id] = ""
    /\ result = [processedCount |-> 1, errorCount |-> 1,
                 errors |-> <<Results[2].id>>]

\* C12: in a table whose notion_page_id is the primary key no identifier
\* ever has more than one row; after upsertRecord is applied to an
\* identifier that already had a row, it has exactly one row, whose content,
\* synced-at and property columns hold the values of this application.
C12_UpsertIdempotence ==
    /\ HasKey(tableTypes) => \A p \in PageIds : Len(relRows[p]) <= 1
    /\ (call.op = "upsertRecord" /\ call.ok /\ call.existed)
          => LET now == relRows[call.record.notion_page_id]
             IN  /\ Len(now) = 1
                 /\ \A c \in Range(AllColumns(call.columns)) :
                        now[1][c] = ValueOf(call.record, c)

C12_Witness ==
    /\ call.op = "upsertRecord"
    /\ call.ok
    /\ call.existed
    /\ Len(relRows[call.record.notion_page_id]) = 1
    /\ relRows[call.record.notion_page_id][1][page_content] = call.record.page_content
    /\ \E p \in PageIds : p # call.record.notion_page_id /\ relRows[p] # <<>>

\* C13: after a successful upsertRecord the row of the record's identifier
\* holds, in every known column, the record's value for it or NULL when the
\* record has none, and the record's content and synced-at; the statement is
\* accepted whatever properties the record lacks.
C13_FullRowReplace ==
    call.op = "upsertRecord"
        => /\ call.ok <=> /\ HasKey(tableTypes)
                           /\ Range(AllColumns(call.columns)) \subseteq tableCols
           /\ call.ok =>
                 LET row == relRows[call.record.notion_page_id][1]
                     props == call.record.properties
                 IN  /\ \A c \in Range(call.columns) :
                            row[c] = IF c \in DOMAIN props THEN props[c] ELSE Null
                     /\ row[page_content] = call.record.page_content
                     /\ row[synced_at] = ToString(call.record.synced_at)
                     /\ row[notion_page_id] = ToString(call.record.notion_page_id)

C13_Witness ==
    /\ call.op = "upsertRecord"
    /\ call.ok
    /\ call.cleared = {TitleColumn}
    /\ TitleColumn \notin DOMAIN call.record.properties
    /\ relRows[call.record.notion_page_id][1][TitleColumn] = Null

\* the statements of the last syncSchema call that add a column
AddStatements ==
    { i \in DOMAIN call.statements : call.statements[i].op = "add" }

\* the elements of `seq`, in order, that are not in cols
RECURSIVE Lacking(_, _)
Lacking(seq, cols) ==
    IF seq = <<>> THEN <<>>
    ELSE IF Head(seq) \in cols THEN Lacking(Tail(seq), cols)
    ELSE <<Head(seq)>> \o Lacking(Tail(seq), cols)

\* a syncSchema call that has returned or thrown
Settled == call.op = "syncSchema" /\ ~InFlight(schemaSync)

\* C14: a successful syncSchema call that follows a successful one, the
\* remote schema being the same, issues no statement and returns
\* created = false and columnsAdded = [].
C14_ReconciliationConverges ==
    (Settled /\ call.repeat /\ ~call.failed)
        => /\ call.statements = <<>>
           /\ ~call.created
           /\ call.columnsAdded = <<>>

C14_Witness ==
    /\ Settled
    /\ call.repeat
    /\ ~call.failed
    /\ call.statements = <<>>
    /\ Cardinality(remoteProps) >= 2
    /\ notion_page_id \notin tableCols
    /\ {PropertyMapping[i].columnName : i \in remoteProps} \subseteq tableCols

\* C15: on a missing table syncSchema issues one statement, a CREATE TABLE
\* of the three special columns followed by one column per schema entry,
\* and no ADD COLUMN; when the statement is accepted it returns
\* created = true and columnsAdded = [], and the table has those columns.
C15_CreatePath ==
    (call.op = "syncSchema" /\ call.reads >= 1 /\ ~call.existed)
        => LET schema == fetchNotionSchema(remoteProps)
           IN  /\ call.reads = 1
               /\ Len(call.statements) = (IF Settled THEN 1 ELSE 0)
               /\ \A i \in DOMAIN call.statements :
                     /\ call.statements[i].op = "create"
                     /\ call.statements[i].columns
                           = SpecialCols \o ColumnNames(schema)
                     /\ call.statements[i].types
                           = SpecialTypes \o ColumnTypes(schema)
               /\ AddStatements = {}
               /\ call.columnsAdded = <<>>
               /\ call.created <=> (Settled /\ ~call.failed)
               /\ (Settled /\ ~call.failed)
                     => /\ tableExists
                        /\ tableCols = Range(SpecialCols \o ColumnNames(schema))

C15_Witness ==
    /\ Settled
    /\ call.reads = 1
    /\ ~call.existed
    /\ call.created
    /\ remoteProps = {1, 2}
    /\ Cardinality(tableCols) = 5
    /\ [name |-> PropertyMapping[2].columnName, type |-> "NUMERIC"] \in tableTypes

\* C16 (as stated): on an existing table a successful syncSchema adds
\* exactly the schema columns the table lacked and reports exactly them in
\* columnsAdded.
C16_AddsExactlyMissingSchemaColumns ==
    (Settled /\ call.reads = 2 /\ ~call.failed)
        => call.columnsAdded
              = Lacking(ColumnNames(fetchNotionSchema(remoteProps)), call.colsBefore)

\* C16 (amended): on an existing table a successful syncSchema adds, with
\* their types, the schema columns the table lacked and then page_content
\* and synced_at when the table lacked them, and reports them in that order
\* in columnsAdded; it returns created = false; with every statement the
\* columns the table had keep their types, the rows keep their cells and
\* hold NULL in the added column, or in synced_at, by its default, the time
\* of the statement.
C16_AlterPath ==
    /\ []((Settled /\ call.reads = 2 /\ ~call.failed)
            => LET schema == fetchNotionSchema(remoteProps)
                   added  == Lacking(ColumnNames(schema), call.colsBefore)
                               \o Lacking(<<page_content, synced_at>>,
                                          call.colsBefore)
                   typed  == { [name |-> schema[i].columnName,
                                type |-> schema[i].postgresType] :
                                  i \in DOMAIN schema }
                             \cup { [name |-> page_content, type |-> "TEXT"],
                                    [name |-> synced_at,
                                     type |-> "TIMESTAMPTZ DEFAULT NOW()"] }
               IN  /\ call.existed
                   /\ call.columnsAdded = added
                   /\ Len(call.statements) = Len(added)
                   /\ \A i \in DOMAIN added :
                          /\ call.statements[i].op = "add"
                          /\ call.statements[i].columns = <<added[i]>>
                   /\ ~call.created
                   /\ tableCols = call.colsBefore \cup Range(added)
                   /\ {t \in tableTypes : t.name \in Range(added)}
                         = {t \in typed : t.name \in Range(added)})
    /\ [][/\ tableTypes \subseteq tableTypes'
          /\ \A p \in PageIds :
                /\ Len(relRows'[p]) = Len(relRows[p])
                /\ \A i \in DOMAIN relRows[p] :
                      /\ \A c \in tableCols :
                            relRows'[p][i][c] = relRows[p][i][c]
                      /\ \A c \in tableCols' \ tableCols :
                            relRows'[p][i][c] \in
                               IF [name |-> c, type |-> SpecialTypes[3]]
                                     \in tableTypes'
                               THEN {ToString(t) : t \in Times}
                               ELSE {Null}]_vars

\* a call added priority and synced_at to a table with rows, at time 2
C16_Witness ==
    /\ Settled
    /\ call.existed
    /\ ~call.failed
    /\ call.columnsAdded = <<PropertyMapping[2].columnName, synced_at>>
    /\ [name |-> PropertyMapping[2].columnName, type |-> "NUMERIC"] \in tableTypes
    /\ \A p \in PageIds :
          /\ relRows[p] # <<>>
          /\ relRows[p][1][PropertyMapping[2].columnName] = Null
          /\ relRows[p][1][synced_at] = ToString(2)
          /\ relRows[p][1][TitleColumn] = Markdown

\* C17 (as stated): on an existing table that lacks notion_page_id,
\* syncSchema issues no statement that adds that column and does not list
\* it in columnsAdded, and when it succeeds the table has page_content,
\* synced_at and every schema column.
C17_PrimaryKeyNeverRetrofitted ==
    (call.op = "syncSchema" /\ call.reads = 2
        /\ notion_page_id \notin call.colsBefore)
        => /\ \A i \in DOMAIN call.statements :
                 notion_page_id \notin Range(call.statements[i].columns)
           /\ notion_page_id \notin Range(call.columnsAdded)
           /\ notion_page_id \notin tableCols
           /\ (Settled /\ ~call.failed)
                 => ({page_content, synced_at}
                       \cup Range(ColumnNames(fetchNotionSchema(remoteProps))))
                         \subseteq tableCols

\* C18: when the k-th statement of a syncSchema call fails, the call fails
\* at once, having issued k statements of its plan and no more, and the
\* table has the columns it had and those of statements 1..k-1 (and that
\* of statement k only when another caller added it first, which is what
\* made the statement fail).
C18_NotTransactional ==
    (call.op = "syncSchema" /\ call.thrown >= 1)
        => /\ Settled
           /\ call.failed
           /\ call.thrown = 1
           /\ call.statements # <<>>
                 => LET plan == DDLPlan(call.existed, call.colsBefore,
                                        fetchNotionSchema(remoteProps))
                        k    == Len(call.statements)
                        kept == call.colsBefore \cup
                                  UNION { Range(plan[i].columns) : i \in 1..(k - 1) }
                    IN  /\ k <= Len(plan)
                        /\ call.statements = SubSeq(plan, 1, k)
                        /\ ~call.created
                        /\ Len(call.columnsAdded)
                              = (IF call.existed THEN k - 1 ELSE 0)
                        /\ call.existed => tableExists
                        /\ kept \subseteq tableCols
                        /\ tableCols \subseteq kept \cup Range(plan[k].columns)

C18_Witness ==
    /\ call.op = "syncSchema"
    /\ call.failed
    /\ Len(call.statements) = 2
    /\ Len(DDLPlan(call.existed, call.colsBefore,
                    fetchNotionSchema(remoteProps))) = 3
    /\ call.statements[1].columns[1] \in tableCols \ call.colsBefore
    /\ call.statements[2].columns[1] \notin tableCols

\* C19: whatever happens to the remote schema, a table that exists goes on
\* existing, keeps every column it has and the type of each.
C19_NoDownMigration ==
    [][tableExists
          => /\ tableExists'
             /\ tableCols \subseteq tableCols'
             /\ tableTypes \subseteq tableTypes'
             /\ \A a, b \in tableTypes' : a.name = b.name => a = b
             /\ tableCols' = {t.name : t \in tableTypes'}]_vars

C19_Witness ==
    /\ call.op = "syncSchema"
    /\ ~call.failed
    /\ call.existed
    /\ 3 \in remoteProps
    /\ [name |-> PropertyMapping[2].columnName, type |-> "NUMERIC"] \in tableTypes
    /\ PropertyMapping[4].columnName \in tableCols
    /\ remoteProps \cap {4, 5} = {}

\* C20 (as stated): the column names of the mapping fetchNotionSchema
\* returns are pairwise distinct.
C20_ColumnNamesUnique ==
    \A i, j \in DOMAIN schemaMapping :
        schemaMapping[i].columnName = schemaMapping[j].columnName => i = j

\* C21: an invocation that is interrupted after any number of its upserts
\* (also in the middle of a batch) any number of times and run again with the
\* carried state the runtime kept, against the unchanged remote, ends as the
\* uninterrupted run from the same start did: with the same rows in the
\* table and the same nextState and hasMore.  (The rows of the model carry
\* no synced_at.)
C21_SafeRetry ==
    (pc = "return" /\ call.run = "interrupted")
        => /\ rows = call.reference.rows
           /\ rowContent = call.reference.rowContent
           /\ nextState = call.reference.nextState
           /\ hasMore = call.reference.hasMore

\* an invocation carrying a cursor, with a batch of two records, was
\* interrupted after the upsert of the first, ran again and reached its
\* return; both upserts replaced an older row
C21_Witness ==
    /\ pc = "return"
    /\ call.run = "interrupted"
    /\ call.interrupted
    /\ call.partial
    /\ call.state.cursor # 0
    /\ Len(queryResult.results) = 2
    /\ outcomes = <<"upserted", "upserted">>
    /\ \A p \in PageIds : call.rows[p] = 2 /\ rows[p] = 1

\* C22: against a finite remote nobody edits, the chain of invocations from
\* no state reaches an invocation that returns hasMore=false; whenever one
\* does, every page of the remote has been upserted; an invocation carrying a
\* cursor resumes the paging (start_cursor set, no filter, no schema
\* reconciliation), and a query without start_cursor is only sent when no
\* cursor is carried.
C22_CycleTerminates ==
    /\ <>(pc = "return" /\ ~hasMore)
    /\ [](pc = "return" /\ ~hasMore
            => \A p \in PageIds :
                  pages[p].last_edited_time # 0 => rows[p] = pages[p].val)
    /\ [](QuerySent /\ rtState.cursor # 0
            => /\ queryParams.start_cursor = rtState.cursor
               /\ queryParams.after = 0
               /\ ~reconciled)
    /\ [](QuerySent /\ queryParams.start_cursor = 0 => rtState.cursor = 0)

\* the invocation that carried the cursor of the last page returns
\* hasMore=false, every page of the remote existing and stored
C22_Witness ==
    /\ pc = "return"
    /\ ~hasMore
    /\ rtState.cursor # 0
    /\ \A p \in PageIds : pages[p].last_edited_time # 0 /\ rows[p] = pages[p].val

\* C23: what execute returns has an empty changes list, and hasMore and
\* nextState as runSync computed them from the response and the carried
\* state, whatever state was carried and whatever happened to the records.
C23_ExecutePassesThrough ==
    pc = "return" =>
        LET out == ExecuteOutput(RunSyncOutput(result, nextState, hasMore))
        IN  /\ out.changes = <<>>
            /\ out.hasMore = HasMoreOf(queryResult)
            /\ out.nextState = NextStateOf(rtState, queryResult)

\* an invocation that carried a state, had a record fail and another
\* stored, and returns hasMore with a nextState
C23_Witness ==
    /\ pc = "return"
    /\ rtState.present
    /\ result.errorCount > 0
    /\ result.processedCount > 0
    /\ ExecuteOutput(RunSyncOutput(result, nextState, hasMore)).hasMore
    /\ ExecuteOutput(RunSyncOutput(result, nextState, hasMore)).nextState.present

\* C24: whatever fails inside the syncSchema tool (configuration, schema
\* fetch, a DDL statement), the caller gets "Schema sync failed" with the
\* error that was thrown; on success the summary is "created" exactly when
\* the table was created by the call, "added columns" exactly when the table
\* existed and columnsAdded is not empty, and "up to date" otherwise.
C24_ToolSummary ==
    call.op = "syncSchema tool" =>
        LET out == call.output
        IN  IF ~call.returned
            THEN out = NoOutput
            ELSE IF call.thrown # "none"
            THEN /\ out.text = "Schema sync failed"
                 /\ out.error.what = call.thrown
                 /\ out.error.stmt = call.refused
            ELSE /\ out.text \in {"Created new table",
                                  "Updated table. Added columns",
                                  "Schema is up to date"}
                 /\ out.error = NoError
                 /\ out.text = "Created new table"
                        <=> (~call.existed /\ tableExists)
                 /\ out.text = "Updated table. Added columns"
                        <=> (call.existed /\ call.columnsAdded # <<>>)
                 /\ out.text = "Updated table. Added columns"
                        => out.columns = call.columnsAdded
                 /\ out.text = "Schema is up to date"
                        <=> (call.existed /\ call.columnsAdded = <<>>)

\* the tool created the table and says so
C24_Witness ==
    /\ call.op = "syncSchema tool"
    /\ call.returned
    /\ call.thrown = "none"
    /\ ~call.existed
    /\ tableExists
    /\ call.output.text = "Created new table"

\* C25: sanitizing a sanitized name changes nothing, and a sanitized name is
\* empty or made of [a-z0-9_] only, begins and ends with a character of
\* [a-z0-9] and has no two underscores in a row; "Due Date!!" gives
\* "due_date".
C25_SanitizeIdempotentWellFormed ==
    call.op = "sanitizeColumnName" =>
        LET out      == call.output
            alnum    == Range(LowerChars) \cup DigitChars
        IN  /\ call.again = out
            /\ \/ out = <<>>
               \/ /\ out[1] \in alnum
                  /\ out[Len(out)] \in alnum
                  /\ \A i \in DOMAIN out : out[i] \in alnum \cup {"_"}
                  /\ \A i \in 1..(Len(out) - 1) :
                        ~(out[i] = "_" /\ out[i + 1] = "_")
            /\ call.name = DueDateBang
                  => out = <<"d","u","e","_","d","a","t","e">>

\* a name with an upper-case letter and two unsafe characters in a row
\* between two letters was sanitized to one with a single underscore
C25_Witness ==
    /\ call.op = "sanitizeColumnName"
    /\ call.name = <<"A", " ", "!", "b">>
    /\ call.output = <<"a", "_", "b">>

\* the supported kinds, each with its relational type
SupportedTypes ==
    { <<"title", "TEXT">>, <<"rich_text", "TEXT">>, <<"number", "NUMERIC">>,
      <<"select", "TEXT">>, <<"multi_select", "TEXT[]">>,
      <<"date", "TIMESTAMPTZ">>, <<"checkbox", "BOOLEAN">>, <<"url", "TEXT">>,
      <<"email", "TEXT">>, <<"phone_number", "TEXT">>, <<"formula", "TEXT">>,
      <<"relation", "TEXT[]">>, <<"rollup", "TEXT">>,
      <<"created_time", "TIMESTAMPTZ">>, <<"created_by", "TEXT">>,
      <<"last_edited_time", "TIMESTAMPTZ">>, <<"last_edited_by", "TEXT">>,
      <<"files", "TEXT[]">>, <<"people", "TEXT[]">>, <<"status", "TEXT">>,
      <<"unique_id", "TEXT">> }

SupportedKinds == { kt[1] : kt \in SupportedTypes }

\* C26: when the retrieve call returns a database with its properties,
\* fetchNotionSchema does not throw, whatever kinds the properties have (it
\* throws when the call rejects or the database comes without properties,
\* and only then); its mapping has one entry for each
\* remote property of a supported kind and none for any other, each entry
\* with the kind of its property and the relational type of that kind; a
\* supported kind has exactly one relational type, any other kind none.
C26_MapsExactlySupportedKinds ==
    /\ call.op = "fetchNotionSchema" => (call.threw <=> call.answer # "full")
    /\ (call.op = "fetchNotionSchema" /\ call.answer = "full") =>
        LET mapping == call.mapping
            entries(p) == { i \in DOMAIN mapping :
                              mapping[i].propName = PropDefs[p].name }
        IN  /\ ~call.threw
            /\ \A p \in remoteProps :
                  IF PropDefs[p].type \in SupportedKinds
                  THEN /\ Cardinality(entries(p)) = 1
                       /\ \A i \in entries(p) :
                             /\ mapping[i].notionType = PropDefs[p].type
                             /\ <<PropDefs[p].type, mapping[i].postgresType>>
                                    \in SupportedTypes
                  ELSE entries(p) = {}
            /\ \A i \in DOMAIN mapping :
                  \E p \in remoteProps : mapping[i].propName = PropDefs[p].name
            /\ IF call.kind \in SupportedKinds
               THEN { kt \in SupportedTypes : kt[1] = call.kind }
                        = { <<call.kind, call.postgresType>> }
               ELSE call.postgresType = ""

\* a database with a number property and a property of an unsupported kind
\* was fetched: the mapping has an entry for every property but that one
C26_Witness ==
    /\ call.op = "fetchNotionSchema"
    /\ call.answer = "full"
    /\ ~call.threw
    /\ {2, 7} \subseteq remoteProps
    /\ Len(call.mapping) = Cardinality(remoteProps) - 1
    /\ call.kind = "verification"

\* the positions of the history that belong to record i of the response
EventsOf(i) == { k \in DOMAIN call.log : call.log[k].record = i }

UpsertCalls == { k \in DOMAIN call.log : call.log[k].call = "upsertRecord" }

\* C27: the upserts of an invocation are issued in the order of the
\* response; everything done for one record (content conversion, upsert,
\* its settling) comes before anything done for the next; at most one
\* upsert is in flight at any time.
C27_StrictlySequential ==
    call.op = "runSync" =>
        /\ Cardinality(call.inFlight) <= 1
        /\ \A a, b \in UpsertCalls :
              a < b => call.log[a].record < call.log[b].record
        /\ \A i, j \in 1..Len(queryResult.results) :
              i < j => \A a \in EventsOf(i), b \in EventsOf(j) : a < b
        /\ \A i \in 1..Len(queryResult.results) :
              \A a \in EventsOf(i), b \in EventsOf(i) :
                  (call.log[a].call = "pageToMarkdown" /\ a # b) => a < b

\* two records were upserted one after the other and the invocation is
\* about to return
C27_Witness ==
    /\ call.op = "runSync"
    /\ pc = "return"
    /\ Cardinality(UpsertCalls) = 2
    /\ \E i \in DOMAIN outcomes : outcomes[i] = "failed"
    /\ \E i \in DOMAIN outcomes : outcomes[i] = "upserted"

RetrieveCalls ==
    { k \in DOMAIN call.log : call.log[k].call = "databases.retrieve" }

\* C30: the first call of an invocation is the schema fetch, there is no
\* other schema fetch in the invocation, with or without a carried cursor,
\* and every upsert of the invocation is called with the column names of
\* the entries of the mapping that fetch returned.
C30_SchemaFetchedOnceFirst ==
    call.op = "runSync" =>
        /\ call.log # <<>> => call.log[1].call = "databases.retrieve"
        /\ Cardinality(RetrieveCalls) = IF pc = "fetchSchema" THEN 0 ELSE 1
        /\ pc # "fetchSchema"
              => schemaMapping =
                    IF 2 \in remoteProps
                    THEN <<PropertyMapping[1], PropertyMapping[2]>>
                    ELSE <<PropertyMapping[1]>>
        /\ \A k \in UpsertCalls :
              call.log[k].columns =
                  [i \in DOMAIN schemaMapping |-> schemaMapping[i].columnName]

\* an invocation that carried a cursor upserted two records with the columns
\* of a two-property mapping and is about to return
C30_Witness ==
    /\ call.op = "runSync"
    /\ pc = "return"
    /\ rtState.cursor # 0
    /\ Len(schemaMapping) = 2
    /\ Cardinality(UpsertCalls) = 2
    /\ Cardinality(RetrieveCalls) = 1

\* C28 (as stated): the watermark does not advance past a failed record.  A
\* record whose extraction or upsert failed in an invocation is returned again
\* by the query of a later invocation of the chain; here in the weaker form
\* that allows the record to be edited again instead.
FailedNow(p) ==
    /\ pc = "return"
    /\ \E i \in DOMAIN outcomes :
          outcomes[i] = "failed" /\ Results[i].id = p

ReturnedNow(p) ==
    /\ pc = "process"
    /\ idx = 1
    /\ outcomes = <<>>
    /\ \E i \in DOMAIN Results : Results[i].id = p

C28_FailedRecordReturnedAgain ==
    \A p \in PageIds, v \in Vals :
        (FailedNow(p) /\ pages[p].val = v)
            ~> (ReturnedNow(p) \/ pages[p].val # v)

\* C29: along a chain of invocations each fed the nextState of
\* the one before, the remote answering sorted ascending by edit time, the
\* lastSyncTime values of the successive states that have one never decrease.
\* (A cycle that returns nothing returns no state; the chain starts over,
\* and the watermark it reaches is the edit time of the last page the remote
\* still has.)
C29_WatermarksNeverRegress ==
    \A t \in 1..MaxClock :
        [](rtState.lastSyncTime = t
              => [](rtState.lastSyncTime = 0 \/ rtState.lastSyncTime >= t))

\* C31: at the end of every invocation processedCount + errorCount is the
\* number of results that are full records (a result without properties is
\* counted in neither), the error list is as long as errorCount, and
\* processedCount + errorCount does not exceed the number of results.
FullResults == { i \in DOMAIN Results : Results[i].full }

C31_CountBookkeeping ==
    pc = "return"
        => /\ result.processedCount + result.errorCount = Cardinality(FullResults)
           /\ Len(result.errors) = result.errorCount
           /\ result.processedCount + result.errorCount <= Len(Results)

C31_Witness ==
    /\ pc = "return"
    /\ Len(Results) = 2
    /\ Cardinality(FullResults) = 1
    /\ result.errorCount = 1
    /\ result.processedCount = 0
    /\ Len(result.errors) = 1

\* C32 (as stated): whenever the syncSchema tool returns the up-to-date
\* summary, the table has the three reserved columns, the primary-key
\* identifier column among them, and a column for every entry of the schema
\* mapping.
C32_UpToDateMeansConverged ==
    (call.op = "syncSchema tool" /\ call.output.text = "Schema is up to date")
        => /\ tableExists
           /\ Range(SpecialCols) \subseteq tableCols
           /\ Range(ColumnNames(fetchNotionSchema(remoteProps))) \subseteq tableCols

\* C33 (as stated): no entry of a mapping fetchNotionSchema returns has a
\* column name that is empty or one of the reserved names, so the column list
\* of the create-table and upsert statements built from it names no column
\* twice and none with the empty name.
C33_NoEmptyOrReservedNames ==
    (call.op = "fetchNotionSchema" /\ ~call.threw)
        => LET columns == AllColumns(ColumnNames(call.mapping))
           IN  /\ \A i \in DOMAIN call.mapping :
                     /\ call.mapping[i].columnName # <<>>
                     /\ call.mapping[i].columnName \notin Range(SpecialCols)
               /\ \A i, j \in DOMAIN columns :
                     columns[i] = columns[j] => i = j
               /\ <<>> \notin Range(columns)

\* C34: no step of a sync invocation or of a reconciliation removes a row:
\* an identifier that has a row keeps it, also when its page is archived or
\* deleted in the remote database afterwards.
C34_SyncNeverRemovesRows ==
    [][\A p \in PageIds : rows[p] # 0 => rows'[p] # 0]_vars

\* a page that was synced is gone from the remote, a fetch from the beginning
\* made after that returned nothing, and the row is there
C34_Witness ==
    /\ pc = "return"
    /\ rtState = Absent
    /\ queryParams.after = 0
    /\ queryParams.start_cursor = 0
    /\ Results = <<>>
    /\ \E p \in PageIds : pages[p] = NoPage /\ rows[p] # 0

\* C35: with no resetSqlClient in between, at most one handle is created and
\* every getSqlClient that returns, returns that handle; a getSqlClient that
\* finds no handle (at the start, or after resetSqlClient) and returns has
\* created exactly one handle, a new one; one that throws has created none,
\* and neither has validateEnv.
GetsClient == call.op \in {"getSqlClient"} \cup Executes

C35_SingleCachedConnection ==
    /\ call.sinceReset <= 1
    /\ Cardinality(call.handed) <= 1
    /\ GetsClient =>
          /\ call.before # 0
                => /\ ~call.failed
                   /\ call.returned = call.before
                   /\ call.sqlClient = call.before
                   /\ call.handed = {call.before}
          /\ (call.before = 0 /\ ~call.failed)
                => /\ call.returned = call.created
                   /\ call.sqlClient = call.returned
                   /\ call.sinceReset = 1
                   /\ call.handed = {call.returned}
          /\ call.failed
                => /\ call.sqlClient = call.before
                   /\ call.sinceReset = 0
    /\ call.op = "resetSqlClient" => call.sqlClient = 0
    /\ call.op = "validateEnv" => call.sqlClient = call.before

C35_Witness ==
    /\ call.op = "getSqlClient"
    /\ call.before = 0
    /\ call.returned = 2
    /\ call.created = 2
    /\ call.sinceReset = 1

\* C36: the first read of an env value validates the four variables together;
\* when the token, the database id or the connection string is missing or
\* malformed the read throws one error that lists every violation, and the
\* sync or the tool that made the read starts no work (no remote query, no
\* DDL, no upsert) and creates no handle: the sync rethrows the error, the
\* tool returns it as its failure string; a successful validation is cached
\* and validation is not run again; work is in flight only under a valid
\* cached configuration.
\* The violations of the three mandatory variables, read off process.env
\* value by value: the variable and the line the error must have for it.
\* (An empty database id or connection string is too short and of the wrong
\* form.)
Violations ==
    LET env == call.processEnv
        line(path, message) == [path |-> path, message |-> message]
    IN  (IF env.NOTION_API_TOKEN = Undefined
         THEN {line("NOTION_API_TOKEN", "NOTION_API_TOKEN must be a string")}
         ELSE {})
        \cup (IF env.NOTION_API_TOKEN = <<>>
              THEN {line("NOTION_API_TOKEN", "NOTION_API_TOKEN is required")}
              ELSE {})
        \cup (IF env.NOTION_DATABASE_ID = Undefined
              THEN {line("NOTION_DATABASE_ID",
                         "NOTION_DATABASE_ID must be a string")}
              ELSE {})
        \cup (IF env.NOTION_DATABASE_ID = <<>>
              THEN {line("NOTION_DATABASE_ID", "NOTION_DATABASE_ID is required")}
              ELSE {})
        \cup (IF env.NOTION_DATABASE_ID \in {<<>>, NotAnId}
              THEN {line("NOTION_DATABASE_ID",
                         "NOTION_DATABASE_ID must be a valid UUID format")}
              ELSE {})
        \cup (IF env.NEON_DATABASE_URL = Undefined
              THEN {line("NEON_DATABASE_URL",
                         "NEON_DATABASE_URL must be a string")}
              ELSE {})
        \cup (IF env.NEON_DATABASE_URL = <<>>
              THEN {line("NEON_DATABASE_URL", "NEON_DATABASE_URL is required")}
              ELSE {})
        \cup (IF env.NEON_DATABASE_URL \in {<<>>, OtherUrl}
              THEN {line("NEON_DATABASE_URL",
                         "NEON_DATABASE_URL must be a postgres:// URL")}
              ELSE {})

\* the lines of the error thrown that are about a mandatory variable
MandatoryLines ==
    { call.issues[i] : i \in { j \in DOMAIN call.issues :
                                  call.issues[j].path # "LOG_LEVEL" } }

ReadsEnv == GetsClient \/ call.op = "validateEnv"

NoWork ==
    /\ pc = "idle"
    /\ ~InFlight(schemaSync)
    /\ queryParams = NoQuery
    /\ ddlIssued = 0
    /\ outcomes = <<>>

C36_ConfigurationValidatedOnce ==
    /\ ReadsEnv =>
          /\ call.validated <= 1
          /\ call.cachedBefore = NoEnv => call.validated = 1
          /\ (call.validated = 1 /\ Violations # {})
                => /\ call.failed
                   /\ MandatoryLines = Violations
                   /\ \A i, j \in DOMAIN call.issues :
                          call.issues[i] = call.issues[j] => i = j
                   /\ ~call.reached
                   /\ call.sqlClient = call.before
                   /\ call.cachedEnv = NoEnv
          /\ call.failed => ~call.reached /\ call.validated = 1
          /\ call.reached => call.cachedEnv # NoEnv
          /\ call.cachedBefore # NoEnv
                => /\ call.validated = 0
                   /\ call.cachedEnv = call.cachedBefore
                   /\ ~call.failed
    /\ (call.op \in Executes /\ call.failed) => NoWork
    /\ (call.op = "notionPostgresSync" /\ call.failed) => call.threw
    /\ (call.op = "syncSchema tool" /\ call.failed)
          => /\ ~call.threw
             /\ call.output.text = "Schema sync failed"
             /\ call.output.error.what = "configuration"
    /\ pc # "idle" => call.cachedEnv # NoEnv

\* a sync invocation that reads a configuration with three violations
C36_Witness ==
    /\ call.op = "notionPostgresSync"
    /\ call.threw
    /\ ~call.reached
    /\ NoWork
    /\ Len(call.issues) >= 3
    /\ Cardinality(Violations) = 3
    /\ call.processEnv.NOTION_API_TOKEN = SomeToken
    /\ call.processEnv.NOTION_DATABASE_ID = <<>>
    /\ call.processEnv.NEON_DATABASE_URL = OtherUrl

\* C37 (as stated): the sync and the syncSchema tool compute the same table
\* name for a database id, and two distinct database ids that envSchema
\* accepts never get the same table name.
C37_OneTablePerCollection ==
    call.op = "getTableName"
        => /\ call.bySync = call.byTool
           /\ (MatchesDatabaseId(call.a) /\ MatchesDatabaseId(call.b)
                  /\ call.a # call.b)
                 => call.bySync # call.other

\* the first sub-result that is populated (neither null nor undefined) among
\* those of the names given, in their order; null when there is none
FirstPopulated(subs, order) ==
    IF \E i \in DOMAIN order : ~Nullish(Get(subs, order[i]))
    THEN Get(subs, order[CHOOSE i \in DOMAIN order :
                           /\ ~Nullish(Get(subs, order[i]))
                           /\ \A j \in 1..(i - 1) : Nullish(Get(subs, order[j]))])
    ELSE JsNull

\* the text of an array of a number, a string and null
SevenXNull ==
    JsString(<<"[", "7", ",", "\"", "x", "\"", ",", "n", "u", "l", "l", "]">>)

Computed ==
    /\ call.op = "extractPropertyValue"
    /\ call.property.type \in {"formula", "rollup"}
    /\ call.property.payload.k = "object"

ArrayRollup ==
    /\ call.property.type = "rollup"
    /\ Get(call.property.payload, "type") = JsString(FieldName("array"))

\* C39 (as stated): for a formula and for a rollup that is no array the value
\* is the first populated sub-result in the order string, number, boolean,
\* date, absent when none is populated; an array rollup gives its serialized
\* string form.
C39_ComputedByFixedPreference ==
    Computed =>
        IF ArrayRollup
        THEN /\ call.output.k = "string"
             /\ call.output = Stringify(Get(call.property.payload, "array"))
             /\ Get(call.property.payload, "array")
                    = JsArray(<<Seven, TextX, JsNull>>)
                   => call.output = SevenXNull
        ELSE call.output
                = FirstPopulated(call.property.payload,
                                 <<"string", "number", "boolean", "date">>)

\* C39 (amended): for a formula the value is the first populated sub-result
\* in the order string, number, boolean, date; for a rollup that is no array
\* it is the number when populated, else the date, and a string or boolean
\* sub-result is not looked at; absent when none is populated; an array
\* rollup gives its serialized string form.
C39_FormulaPreferenceRollupNumberDate ==
    Computed =>
        IF ArrayRollup
        THEN /\ call.output.k = "string"
             /\ call.output = Stringify(Get(call.property.payload, "array"))
             /\ Get(call.property.payload, "array")
                    = JsArray(<<Seven, TextX, JsNull>>)
                   => call.output = SevenXNull
        ELSE IF call.property.type = "formula"
        THEN call.output
                = FirstPopulated(call.property.payload,
                                 <<"string", "number", "boolean", "date">>)
        ELSE call.output
                = FirstPopulated(call.property.payload, <<"number", "date">>)

\* a formula whose string is null and whose number and boolean are 0 and
\* false
C39_Witness ==
    /\ call.op = "extractPropertyValue"
    /\ call.property = Property("formula", Formula(JsNull, Zero, JsFalse, Start))
    /\ call.output = Zero

\* what C38 says of one property value: a value of a kind the switch does
\* not know gives null, a multi-choice value gives a list, the empty list
\* when it is unset
DecodesKinds ==
    call.op = "extractPropertyValue"
        => /\ call.property.type \notin SupportedKinds => call.output = JsNull
           /\ call.property.type = "multi_select"
                 => /\ call.output.k = "array"
                    /\ Nullish(call.property.payload)
                          => call.output = JsArray(<<>>)

\* C38: for every entry of the mapping whose property the page
\* has, the map holds the decoded value under the entry's column; for every
\* entry whose property the page lacks, the map has no such column; a value
\* of an unknown kind decodes to null; a multi-choice value decodes to a list.
\* (Two entries with one sanitized column name write the same key of the map.)
C38_ValueExtractionPerRecord ==
    /\ DecodesKinds
    /\ call.op = "properties"
          => \A i \in DOMAIN call.mapping :
                LET entry == call.mapping[i]
                IN  IF entry.propName \in DOMAIN call.held
                    THEN /\ entry.columnName \in DOMAIN call.properties
                         /\ call.properties[entry.columnName]
                               = extractPropertyValue(call.held[entry.propName])
                    ELSE entry.columnName \notin DOMAIN call.properties

=============================================================================
